---------------------------- MODULE Spec2Model ----------------------------
(***************************************************************************)
(* A model of the SBOM visualizer (VibeVisualizer): the SBOM store with    *)
(* its duplicate heuristic and common-component index, the graph           *)
(* visualization's render / expand / collapse, and the clustering          *)
(* functions.                                                              *)
(*                                                                         *)
(* JavaScript values are modelled as follows.  Every string is a TLA+      *)
(* string; the values undefined and null are the reserved strings          *)
(* Undefined and Null, so that === is TLA+ equality and truthiness is      *)
(* Truthy.  An array is a sequence.  A top-level array of a raw document   *)
(* that may be absent is a pair of fields (hasX, X): hasX is FALSE and X   *)
(* is << >> when the key is absent.                                        *)
(***************************************************************************)
EXTENDS Integers, Sequences, FiniteSets, TLC

VARIABLES
    sboms,        \* SBOMStore.sboms: the collection of loaded SBOMs
    listeners,    \* SBOMStore.listeners: subscribed callbacks, in order
    delivered,    \* the notifications the last store operation delivered
    last,         \* the last store call: operation, arguments, outcome
    uiInstalled,  \* whether window.UIControls.handleSBOMLoaded exists
    threshold,    \* Config.visualization.clustering.threshold
    nodes,        \* GraphVisualization.nodes: the displayed nodes
    links,        \* GraphVisualization.links: the displayed links
    rawNodes,     \* GraphVisualization.rawNodes: snapshot before clustering
    rawLinks,     \* GraphVisualization.rawLinks
    expandedClusters, \* GraphVisualization.expandedClusters (a Set of ids)
    before,       \* what was displayed just before the last expansion
    maxNodeLimit, \* Config.visualization.clustering.maxNodeLimit
    densityReductionEnabled, \* AppState.current.densityReductionEnabled
    rendered,     \* the last render: its options, and the store it read
    clicks,       \* number of cluster clicks since the last render
    cin,          \* the arguments of the last call of the function looked
                  \* at: applyClustering, applyDensityReduction or
                  \* getComponentByUuid
    cout,         \* the value that call returned
    ingested,     \* the number of SBOMs added so far, where AddColored counts
    sidebar       \* AppState.current.visibleSboms, the items of the SBOM list
                  \* of the sidebar, and the render a click has scheduled

storeVars == <<sboms, listeners, delivered, last, uiInstalled>>
limitVars == <<maxNodeLimit, densityReductionEnabled>>
vizVars == <<threshold, nodes, links, rawNodes, rawLinks, expandedClusters,
             before, clicks, maxNodeLimit, densityReductionEnabled, rendered>>
clusterVars == <<cin, cout>>
vars == <<sboms, listeners, delivered, last, uiInstalled, threshold, nodes,
          links, rawNodes, rawLinks, expandedClusters, before, clicks,
          maxNodeLimit, densityReductionEnabled, rendered, cin, cout,
          ingested, sidebar>>

(***************************************************************************)
(* JavaScript values                                                       *)
(***************************************************************************)
Undefined == "<undefined>"
Null == "<null>"

\* JavaScript truthiness of a string-or-undefined-or-null value
Truthy(v) == v \notin {Undefined, Null, ""}

\* v || d
OrElse(v, d) == IF Truthy(v) THEN v ELSE d

\* Array.prototype.map
MapSeq(s, F(_)) == [i \in 1..Len(s) |-> F(s[i])]

\* the elements of an array
Range(s) == {s[i] : i \in 1..Len(s)}

\* [...new Set(s)]: the distinct elements in order of first occurrence
Distinct(s) ==
    LET firsts == SelectSeq([k \in 1..Len(s) |-> k], LAMBDA k :
                      \A j \in 1..(k - 1) : s[j] # s[k])
    IN  [r \in 1..Len(firsts) |-> s[firsts[r]]]

\* concatenation of the sequences at positions lo..hi
RECURSIVE FlattenBetween(_, _, _)
FlattenBetween(ss, lo, hi) ==
    IF lo > hi THEN << >>
    ELSE IF lo = hi THEN ss[lo]
    ELSE LET mid == (lo + hi) \div 2
         IN  FlattenBetween(ss, lo, mid) \o FlattenBetween(ss, mid + 1, hi)

\* concatenation of a sequence of sequences
Flatten(ss) == FlattenBetween(ss, 1, Len(ss))

Min(a, b) == IF a < b THEN a ELSE b
Abs(a) == IF a < 0 THEN -a ELSE a

\* obj.f, which is undefined when obj has no property f
Get(obj, f) == IF f \in DOMAIN obj THEN obj[f] ELSE Undefined

\* obj.f || [] for a property that holds an array when present
ListOr(obj, f) == IF f \in DOMAIN obj THEN obj[f] ELSE << >>

\* obj.f || 0 for a property that holds a number when present
NumOr(obj, f) == IF f \in DOMAIN obj THEN obj[f] ELSE 0

\* obj.f || false for a property that holds a boolean when present
BoolOr(obj, f) == (f \in DOMAIN obj) /\ obj[f]

(***************************************************************************)
(* Raw input records (the JSON shape of spec section 6)                    *)
(***************************************************************************)
RawSystem(uuid, name, vendor) ==
    [UUID |-> uuid, name |-> name, vendor |-> vendor]

RawHardware(uuid, name) == [UUID |-> uuid, name |-> name]

\* one entry of a software record's metadata array
RawMeta(os, ident, isExe, isLib, deps) ==
    [OS |-> os, elfIdent |-> ident, elfIsExe |-> isExe, elfIsLib |-> isLib,
     elfDependencies |-> deps]

RawSoftware(uuid, name, version, sha, fileName, metadata) ==
    [UUID |-> uuid, name |-> name, version |-> version, sha256 |-> sha,
     fileName |-> fileName, metadata |-> metadata]

RawRelationship(x, y, rel) == [xUUID |-> x, yUUID |-> y, relationship |-> rel]

RawDoc(hasSys, sys, hasHw, hw, hasSw, sw, rels) ==
    [hasSystems |-> hasSys, systems |-> sys,
     hasHardware |-> hasHw, hardware |-> hw,
     hasSoftware |-> hasSw, software |-> sw,
     relationships |-> rels]

NoDoc == RawDoc(FALSE, << >>, FALSE, << >>, FALSE, << >>, << >>)

(***************************************************************************)
(* SBOMModel and SBOMNormalizer                                            *)
(***************************************************************************)
createSystem(uuid, name, data) ==
    [uuid |-> OrElse(uuid, ""),
     name |-> OrElse(name, "Unnamed System"),
     vendor |-> OrElse(Get(data, "vendor"), ""),
     captureStart |-> NumOr(data, "captureStart"),
     captureEnd |-> NumOr(data, "captureEnd"),
     type |-> "system",
     metadata |-> ListOr(data, "metadata")]

createHardware(uuid, name, data) ==
    [uuid |-> OrElse(uuid, ""),
     name |-> OrElse(name, "Unnamed Hardware"),
     vendor |-> ListOr(data, "vendor"),
     type |-> "hardware",
     metadata |-> ListOr(data, "metadata")]

\* elfMetadata: present = FALSE stands for null
NoElf == [present |-> FALSE, isExecutable |-> FALSE, isLibrary |-> FALSE,
          dependencies |-> << >>, soname |-> << >>, interpreter |-> << >>,
          architecture |-> "", comments |-> << >>]

\* the loop of extractElfMetadata over data.metadata (model.js 107-119)
RECURSIVE firstLinuxElf(_)
firstLinuxElf(metadata) ==
    IF metadata = << >> THEN NoElf
    ELSE LET meta == Head(metadata)
         IN  IF Get(meta, "OS") = "Linux" /\ BoolOr(meta, "elfIdent")
             THEN [present |-> TRUE,
                   isExecutable |-> BoolOr(meta, "elfIsExe"),
                   isLibrary |-> BoolOr(meta, "elfIsLib"),
                   dependencies |-> ListOr(meta, "elfDependencies"),
                   soname |-> ListOr(meta, "elfSoname"),
                   interpreter |-> ListOr(meta, "elfInterpreter"),
                   architecture |-> OrElse(Get(meta, "elfHumanArch"), ""),
                   comments |-> ListOr(meta, "elfComment")]
             ELSE firstLinuxElf(Tail(metadata))

\* extractElfMetadata(data): null when data has no metadata
extractElfMetadata(data) ==
    IF "metadata" \notin DOMAIN data THEN NoElf
    ELSE firstLinuxElf(data.metadata)

createSoftware(uuid, name, data) ==
    [uuid |-> OrElse(uuid, ""),
     name |-> OrElse(name, "Unnamed Software"),
     fileName |-> ListOr(data, "fileName"),
     version |-> OrElse(Get(data, "version"), ""),
     size |-> NumOr(data, "size"),
     vendor |-> ListOr(data, "vendor"),
     description |-> OrElse(Get(data, "description"), ""),
     installPath |-> ListOr(data, "installPath"),
     containerPath |-> ListOr(data, "containerPath"),
     captureTime |-> NumOr(data, "captureTime"),
     sha1 |-> OrElse(Get(data, "sha1"), ""),
     sha256 |-> OrElse(Get(data, "sha256"), ""),
     md5 |-> OrElse(Get(data, "md5"), ""),
     metadata |-> ListOr(data, "metadata"),
     type |-> "software",
     elfMetadata |-> extractElfMetadata(data)]

createRelationship(source, target, type) ==
    [source |-> OrElse(source, ""),
     target |-> OrElse(target, ""),
     type |-> OrElse(type, "Unknown")]

getSubtype(data, type) ==
    IF type = "software" /\ data.elfMetadata.present
    THEN IF data.elfMetadata.isExecutable THEN "executable"
         ELSE IF data.elfMetadata.isLibrary THEN "library"
         ELSE "other"
    ELSE Null

\* A graph node.  The fields a regular node does not have (isCluster,
\* nodeCount, commonCount, originalNodeIds) and the annotations render adds
\* later (color, commonKey, relatedSboms) hold the value they read as when
\* absent.
createNode(id, name, type, sbomId, data) ==
    [id |-> id, name |-> name, type |-> type,
     subtype |-> getSubtype(data, type),
     sbomId |-> sbomId, data |-> data, isCommon |-> FALSE,
     color |-> Undefined, commonKey |-> Undefined, relatedSboms |-> << >>,
     isCluster |-> FALSE, nodeCount |-> 0, commonCount |-> 0,
     originalNodeIds |-> << >>]

\* A graph link; count = 0 stands for an absent count.
createLink(source, target, type, sbomId) ==
    [source |-> source, target |-> target, type |-> type, sbomId |-> sbomId,
     count |-> 0]

normalizeSystems(systems) ==
    MapSeq(systems,
           LAMBDA s : createSystem(Get(s, "UUID"),
                                    OrElse(Get(s, "name"), "Unnamed System"), s))

normalizeHardware(hardware) ==
    MapSeq(hardware,
           LAMBDA h : createHardware(Get(h, "UUID"),
                                      OrElse(Get(h, "name"), "Unnamed Hardware"),
                                      h))

extractName(sw) ==
    IF Truthy(Get(sw, "name")) THEN sw.name
    ELSE IF "fileName" \in DOMAIN sw /\ Len(sw.fileName) > 0 THEN sw.fileName[1]
    ELSE "Unnamed Component"

normalizeSoftware(software) ==
    MapSeq(software,
           LAMBDA sw : createSoftware(Get(sw, "UUID"), extractName(sw), sw))

normalizeRelationships(relationships) ==
    MapSeq(relationships,
           LAMBDA rel : createRelationship(
                            OrElse(Get(rel, "xUUID"), ""),
                            OrElse(Get(rel, "yUUID"), ""),
                            OrElse(Get(rel, "relationship"), "Unknown")))

createGraphData(sbom) ==
    [nodes |->
        MapSeq(sbom.systems,
               LAMBDA s : createNode(s.uuid, s.name, "system", sbom.id, s))
        \o MapSeq(sbom.hardware,
               LAMBDA h : createNode(h.uuid, h.name, "hardware", sbom.id, h))
        \o MapSeq(sbom.software,
               LAMBDA sw : createNode(sw.uuid, sw.name, "software", sbom.id, sw)),
     links |->
        MapSeq(sbom.relationships,
               LAMBDA rel : createLink(rel.source, rel.target, rel.type, sbom.id))]

(***************************************************************************)
(* Formatter and Config                                                    *)
(***************************************************************************)
\* prefix + Date.now() + '_' + Math.floor(Math.random() * 1000);
\* now and rnd are the values Date.now() and the floor produce
uniqueId(prefix, now, rnd) == prefix \o ToString(now) \o "_" \o ToString(rnd)

colorPalette ==
    <<"#1f77b4", "#ff7f0e", "#2ca02c", "#d62728", "#9467bd",
      "#8c564b", "#e377c2", "#7f7f7f", "#bcbd22", "#17becf">>

(***************************************************************************)
(* SBOMStore                                                               *)
(***************************************************************************)
CountDiffLimit == 5
SampleLimit == 10
MatchRatioNum == 7
MatchRatioDen == 10

\* jsonData.X?.length || 0
RawLength(has, arr) == IF has THEN Len(arr) ELSE 0

\* softwareDiff + systemsDiff + hardwareDiff > 5 (store.js 37)
tooDifferent_Limit4(totalDiff) == totalDiff > CountDiffLimit - 1

tooDifferent(totalDiff) == totalDiff > CountDiffLimit

\* Math.min(10, jsonData.software.length) (store.js 54)
sampleSizeOf_All(count) == count

sampleSizeOf(count) == Min(SampleLimit, count)

\* (matchCount / sampleSize) > 0.7 (store.js 76).  In IEEE doubles, for
\* sample sizes 1..10, the quotient equals 0.7 only for 7/10, which rounds to
\* the literal 0.7; every other quotient is at least 0.01 away from it.  So
\* the comparison is the exact rational one.
ratioExceeded_AtLeast(matchCount, sampleSize) ==
    matchCount * MatchRatioDen >= MatchRatioNum * sampleSize

ratioExceeded(matchCount, sampleSize) ==
    matchCount * MatchRatioDen > MatchRatioNum * sampleSize

\* the test of one sampled entry (store.js 58-72)
sampleMatches(sw, existingSbom) ==
    IF Truthy(Get(sw, "sha256"))
    THEN \E existingSw \in Range(existingSbom.software) :
            existingSw.sha256 = sw.sha256
    ELSE IF Truthy(Get(sw, "name")) /\ Truthy(Get(sw, "version"))
    THEN \E existingSw \in Range(existingSbom.software) :
            existingSw.name = sw.name /\ existingSw.version = sw.version
    ELSE FALSE

\* the callback of this.sboms.some(...) (store.js 31-80)
similarTo(jsonData, existingSbom) ==
    LET softwareDiff == Abs(RawLength(jsonData.hasSoftware, jsonData.software)
                            - Len(existingSbom.software))
        systemsDiff == Abs(RawLength(jsonData.hasSystems, jsonData.systems)
                           - Len(existingSbom.systems))
        hardwareDiff == Abs(RawLength(jsonData.hasHardware, jsonData.hardware)
                            - Len(existingSbom.hardware))
        sampleSize == sampleSizeOf(Len(jsonData.software))
        matchCount == Cardinality({i \in 1..sampleSize :
                          sampleMatches(jsonData.software[i], existingSbom)})
    IN  IF tooDifferent(softwareDiff + systemsDiff + hardwareDiff) THEN FALSE
        ELSE IF jsonData.hasSystems /\ Len(jsonData.systems) > 0
                /\ Len(existingSbom.systems) > 0
        THEN \E newSystem \in Range(jsonData.systems) :
                \E existingSystem \in Range(existingSbom.systems) :
                    /\ existingSystem.name = Get(newSystem, "name")
                    /\ existingSystem.vendor = Get(newSystem, "vendor")
        ELSE IF jsonData.hasSoftware /\ Len(jsonData.software) > 0
        THEN ratioExceeded(matchCount, sampleSize)
        ELSE FALSE

\* isDuplicateSBOM when this.sboms is store
isDuplicateIn(store, jsonData, fileName) ==
    IF \E i \in 1..Len(store) : store[i].fileName = fileName THEN TRUE
    ELSE IF ~jsonData.hasSystems \/ ~jsonData.hasSoftware THEN FALSE
    ELSE \E i \in 1..Len(store) : similarTo(jsonData, store[i])

isDuplicateSBOM(jsonData, fileName) == isDuplicateIn(sboms, jsonData, fileName)

\* the SBOM object addSBOM builds at store.js 99-113 when this.sboms is store
sbomFor(store, jsonData, fileName, now, rnd) ==
    LET sbomId == uniqueId("sbom_", now, rnd)
        color == colorPalette[(Len(store) % Len(colorPalette)) + 1]
        sbom == [id |-> sbomId, fileName |-> fileName, color |-> color,
                 systems |-> normalizeSystems(jsonData.systems),
                 hardware |-> normalizeHardware(jsonData.hardware),
                 software |-> normalizeSoftware(jsonData.software),
                 relationships |->
                     normalizeRelationships(ListOr(jsonData, "relationships"))]
    IN  [id |-> sbom.id, fileName |-> sbom.fileName, color |-> sbom.color,
         systems |-> sbom.systems, hardware |-> sbom.hardware,
         software |-> sbom.software, relationships |-> sbom.relationships,
         graphData |-> createGraphData(sbom)]

newSBOM(jsonData, fileName, now, rnd) ==
    sbomFor(sboms, jsonData, fileName, now, rnd)

\* what notifyListeners(event, data) delivers: one call per listener, in order
notifyListeners(event, data) ==
    MapSeq(listeners, LAMBDA l : [listener |-> l, event |-> event, data |-> data])

Call(op, doc, fileName, result) ==
    [op |-> op, doc |-> doc, fileName |-> fileName, result |-> result]

\* addSBOM with the registration moved ahead of the duplicate test
addSBOM_RegisterFirst(jsonData, fileName, now, rnd) ==
    LET sbom == newSBOM(jsonData, fileName, now, rnd)
    IN  /\ sboms' = Append(sboms, sbom)
        /\ delivered' = notifyListeners("sbom-added", sbom.id)
        /\ last' = Call("addSBOM", jsonData, fileName,
                        IF isDuplicateSBOM(jsonData, fileName) THEN "null"
                        ELSE IF uiInstalled THEN "threw" ELSE "sbom")
        /\ UNCHANGED <<listeners, uiInstalled>>

\* addSBOM(jsonData, fileName).  The result is "null" for a duplicate;
\* otherwise the SBOM is registered and the listeners are told, and then
\* window.UIControls.handleSBOMLoaded, when installed, runs: its first
\* statement calls this.updateSBOMList, which UIControls does not define, so
\* the call ends in a TypeError ("threw") after the registration.
addSBOM(jsonData, fileName, now, rnd) ==
    IF isDuplicateSBOM(jsonData, fileName)
    THEN /\ last' = Call("addSBOM", jsonData, fileName, "null")
         /\ delivered' = << >>
         /\ UNCHANGED <<sboms, listeners, uiInstalled>>
    ELSE LET sbom == newSBOM(jsonData, fileName, now, rnd)
         IN  /\ sboms' = Append(sboms, sbom)
             /\ delivered' = notifyListeners("sbom-added", sbom.id)
             /\ last' = Call("addSBOM", jsonData, fileName,
                             IF uiInstalled THEN "threw" ELSE "sbom")
             /\ UNCHANGED <<listeners, uiInstalled>>

removeSBOM(sbomId) ==
    LET kept == SelectSeq(sboms, LAMBDA s : s.id # sbomId)
        removed == Len(kept) < Len(sboms)
    IN  /\ sboms' = kept
        /\ delivered' = IF removed THEN notifyListeners("sbom-removed", sbomId)
                        ELSE << >>
        /\ last' = Call("removeSBOM", NoDoc, sbomId,
                        IF removed THEN "true" ELSE "false")
        /\ UNCHANGED <<listeners, uiInstalled>>

clear ==
    /\ sboms' = << >>
    /\ delivered' = notifyListeners("store-cleared", Undefined)
    /\ last' = Call("clear", NoDoc, "", "undefined")
    /\ UNCHANGED <<listeners, uiInstalled>>

subscribe(listener) ==
    /\ listeners' = Append(listeners, listener)
    /\ delivered' = << >>
    /\ last' = Call("subscribe", NoDoc, listener, "unsubscribe")
    /\ UNCHANGED <<sboms, uiInstalled>>

\* the function subscribe returned, called
unsubscribe(listener) ==
    /\ listeners' = SelectSeq(listeners, LAMBDA l : l # listener)
    /\ delivered' = << >>
    /\ last' = Call("unsubscribe", NoDoc, listener, "undefined")
    /\ UNCHANGED <<sboms, uiInstalled>>

\* the value of getComponentByUuid for a store without a match
NotFound == [found |-> FALSE]

\* getComponentByUuid on the SBOMs from position i on
RECURSIVE componentFrom(_, _, _)
componentFrom(store, uuid, i) ==
    IF i > Len(store) THEN NotFound
    ELSE LET sbom == store[i]
             hit(list, type) ==
                 LET first == CHOOSE k \in 1..Len(list) :
                                 /\ list[k].uuid = uuid
                                 /\ \A j \in 1..(k - 1) : list[j].uuid # uuid
                 IN  [found |-> TRUE, component |-> list[first],
                      sbomId |-> sbom.id, type |-> type]
             has(list) == \E k \in 1..Len(list) : list[k].uuid = uuid
         IN  IF has(sbom.systems) THEN hit(sbom.systems, "system")
             ELSE IF has(sbom.hardware) THEN hit(sbom.hardware, "hardware")
             ELSE IF has(sbom.software) THEN hit(sbom.software, "software")
             ELSE componentFrom(store, uuid, i + 1)

getComponentByUuid(store, uuid) == componentFrom(store, uuid, 1)

\* the identity key of a software component; Undefined when the component
\* is skipped
identityKey(sw) ==
    IF Truthy(sw.sha256) THEN "sha256:" \o sw.sha256
    ELSE IF Len(sw.fileName) > 0 THEN "name:" \o sw.fileName[1]
    ELSE Undefined

\* the first pass with the SBOMs visited from the newest to the oldest
keyedOccurrences_NewestFirst(store) ==
    Flatten(MapSeq([i \in 1..Len(store) |-> store[Len(store) + 1 - i]],
        LAMBDA sbom :
        MapSeq(SelectSeq(sbom.software, LAMBDA sw : identityKey(sw) # Undefined),
               LAMBDA sw : [key |-> identityKey(sw), sbomId |-> sbom.id,
                            uuid |-> sw.uuid, component |-> sw])))

\* the first pass of findCommonComponents, flattened: every keyed software
\* component of every SBOM, in iteration order
keyedOccurrences(store) ==
    Flatten(MapSeq(store, LAMBDA sbom :
        MapSeq(SelectSeq(sbom.software, LAMBDA sw : identityKey(sw) # Undefined),
               LAMBDA sw : [key |-> identityKey(sw), sbomId |-> sbom.id,
                            uuid |-> sw.uuid, component |-> sw])))

\* findCommonComponents(): the Map as the sequence of its entries in
\* insertion order, each [key, occurrences, sbomIds]
findCommonComponents(store) ==
    LET all == keyedOccurrences(store)
        keys == Distinct(MapSeq(all, LAMBDA o : o.key))
        entry(key) ==
            LET occurrences ==
                    MapSeq(SelectSeq(all, LAMBDA o : o.key = key),
                           LAMBDA o : [sbomId |-> o.sbomId, uuid |-> o.uuid,
                                       component |-> o.component])
            IN  [key |-> key, occurrences |-> occurrences,
                 sbomIds |-> Distinct(MapSeq(occurrences, LAMBDA o : o.sbomId))]
    IN  SelectSeq(MapSeq(keys, entry),
                  LAMBDA e : Len(e.occurrences) > 1 /\ Len(e.sbomIds) > 1)

(***************************************************************************)
(* VizClusters                                                             *)
(***************************************************************************)
ConfigThreshold == 30
ConfigMaxNodeLimit == 500
HubDegreeLimit == 5
CommonDegreeLimit == 2

\* SBOMStore.getSBOMById(sbomId) ? sbom.color : '#999'
colorOfSBOM(sbomId) ==
    IF \E i \in 1..Len(sboms) : sboms[i].id = sbomId
    THEN sboms[CHOOSE i \in 1..Len(sboms) :
                  /\ sboms[i].id = sbomId
                  /\ \A j \in 1..(i - 1) : sboms[j].id # sbomId].color
    ELSE "#999"

\* the key with the subtype left out
clusterIdOf_NoSubtype(node) == node.sbomId \o "-" \o node.type

\* the key createClusters groups by
clusterIdOf(node) ==
    node.sbomId \o "-" \o node.type
        \o (IF Truthy(node.subtype) THEN "-" \o node.subtype ELSE "")

\* the Map of clusters, in insertion order
createClusters(nodeList, linkList) ==
    LET ids == Distinct(MapSeq(nodeList, clusterIdOf))
        cluster(id) ==
            LET members == SelectSeq(nodeList, LAMBDA n : clusterIdOf(n) = id)
            IN  [id |-> id,
                 sbomId |-> members[1].sbomId,
                 type |-> members[1].type,
                 subtype |-> members[1].subtype,
                 nodes |-> members,
                 commonNodes |-> Len(SelectSeq(members, LAMBDA n : n.isCommon))]
    IN  MapSeq(ids, cluster)

\* the data field of a node that has none
NoData == [absent |-> TRUE]

\* the node that stands for a cluster
clusterNode(cluster) ==
    [id |-> cluster.id,
     name |-> ToString(Len(cluster.nodes)) \o " " \o cluster.type
                \o (IF Truthy(cluster.subtype)
                    THEN " (" \o cluster.subtype \o ")" ELSE "")
                \o " components",
     type |-> cluster.type,
     subtype |-> cluster.subtype,
     sbomId |-> cluster.sbomId,
     data |-> NoData,
     isCommon |-> cluster.commonNodes > 0,
     color |-> colorOfSBOM(cluster.sbomId),
     commonKey |-> Undefined, relatedSboms |-> << >>,
     isCluster |-> TRUE,
     nodeCount |-> Len(cluster.nodes),
     commonCount |-> cluster.commonNodes,
     originalNodeIds |-> MapSeq(cluster.nodes, LAMBDA n : n.id)]

\* createClusterNodes with a cluster node for every non-empty group
createClusterNodes_Singletons(clusters) ==
    Flatten(MapSeq(clusters, LAMBDA cluster :
        IF Len(cluster.nodes) > 0 THEN <<clusterNode(cluster)>>
        ELSE << >>))

createClusterNodes(clusters) ==
    Flatten(MapSeq(clusters, LAMBDA cluster :
        IF Len(cluster.nodes) > 1 THEN <<clusterNode(cluster)>>
        ELSE IF Len(cluster.nodes) = 1 THEN <<cluster.nodes[1]>>
        ELSE << >>))

\* the id of the last cluster that holds a node with this id, or Null
clusterHolding(clusters, nodeId) ==
    LET holding == SelectSeq(clusters, LAMBDA cluster :
                       \E k \in 1..Len(cluster.nodes) : cluster.nodes[k].id = nodeId)
    IN  IF holding = << >> THEN Null ELSE holding[Len(holding)].id

\* the linkMap of createClusterLinks after the first n links: a sequence of
\* [key, link] in insertion order
RECURSIVE clusterLinkMap(_, _, _)
clusterLinkMap(clusters, originalLinks, n) ==
    IF n = 0 THEN << >>
    ELSE LET map == clusterLinkMap(clusters, originalLinks, n - 1)
             link == originalLinks[n]
             sourceClusterId == clusterHolding(clusters, link.source)
             targetClusterId == clusterHolding(clusters, link.target)
             linkId == sourceClusterId \o "-" \o targetClusterId
         IN  IF sourceClusterId # Null /\ targetClusterId # Null
                /\ sourceClusterId # targetClusterId
             THEN IF \E m \in 1..Len(map) : map[m].key = linkId
                  THEN [m \in 1..Len(map) |->
                           IF map[m].key = linkId
                           THEN [map[m] EXCEPT !.link.count = @ + 1]
                           ELSE map[m]]
                  ELSE Append(map,
                          [key |-> linkId,
                           link |-> [source |-> sourceClusterId,
                                     target |-> targetClusterId,
                                     type |-> "cluster-link",
                                     sbomId |-> link.sbomId,
                                     count |-> 1]])
             ELSE map

\* createClusterLinks with every count left at 1
createClusterLinks_CountOne(clusters, originalLinks) ==
    MapSeq(clusterLinkMap(clusters, originalLinks, Len(originalLinks)),
           LAMBDA e : [e.link EXCEPT !.count = 1])

createClusterLinks(clusters, originalLinks) ==
    MapSeq(clusterLinkMap(clusters, originalLinks, Len(originalLinks)),
           LAMBDA e : e.link)

\* the number of link ends at the node
connectionCount(linkList, nodeId) ==
    Len(SelectSeq(linkList, LAMBDA l : l.source = nodeId))
        + Len(SelectSeq(linkList, LAMBDA l : l.target = nodeId))

isImportant(node, linkList) ==
    \/ connectionCount(linkList, node.id) > HubDegreeLimit
    \/ (node.isCommon /\ connectionCount(linkList, node.id) > CommonDegreeLimit)
    \/ node.type = "system"

findImportantNodes(nodeList, linkList) ==
    SelectSeq(nodeList, LAMBDA node : isImportant(node, linkList))

\* the id of the last cluster of more than one node that holds the node
bigClusterHolding(clusters, nodeId) ==
    clusterHolding(SelectSeq(clusters, LAMBDA cluster : Len(cluster.nodes) > 1),
                   nodeId)

createImportantLinks(importantNodes, clusters, originalLinks) ==
    LET importantNodeIds == {importantNodes[k].id : k \in 1..Len(importantNodes)}
        linksOf(link) ==
            IF link.source \in importantNodeIds /\ link.target \in importantNodeIds
            THEN <<link>>
            ELSE IF link.source \in importantNodeIds
            THEN IF bigClusterHolding(clusters, link.target) # Null
                 THEN <<[source |-> link.source,
                         target |-> bigClusterHolding(clusters, link.target),
                         type |-> link.type, sbomId |-> link.sbomId,
                         count |-> 0]>>
                 ELSE << >>
            ELSE IF link.target \in importantNodeIds
            THEN IF bigClusterHolding(clusters, link.source) # Null
                 THEN <<[source |-> bigClusterHolding(clusters, link.source),
                         target |-> link.target,
                         type |-> link.type, sbomId |-> link.sbomId,
                         count |-> 0]>>
                 ELSE << >>
            ELSE << >>
    IN  Flatten(MapSeq(originalLinks, linksOf))

\* optThreshold = 0 stands for options.threshold absent (or 0): the
\* configured threshold applies
applyClustering(nodeList, linkList, optThreshold) ==
    LET limit == IF optThreshold # 0 THEN optThreshold ELSE threshold
        clusters == createClusters(nodeList, linkList)
        importantNodes == findImportantNodes(nodeList, linkList)
    IN  IF Len(nodeList) <= limit
        THEN [nodes |-> nodeList, links |-> linkList, clusters |-> << >>]
        ELSE [nodes |-> createClusterNodes(clusters) \o importantNodes,
              links |-> createClusterLinks(clusters, linkList)
                          \o createImportantLinks(importantNodes, clusters,
                                                  linkList),
              clusters |-> clusters]

\* VizClusters.expandCluster
VizClusters_expandCluster(cluster, originalNodes, originalLinks) ==
    IF ~cluster.isCluster THEN [nodes |-> << >>, links |-> << >>]
    ELSE [nodes |-> SelectSeq(originalNodes, LAMBDA node :
                        node.id \in Range(cluster.originalNodeIds)),
          links |-> SelectSeq(originalLinks, LAMBDA link :
                        \/ link.source \in Range(cluster.originalNodeIds)
                        \/ link.target \in Range(cluster.originalNodeIds))]

(***************************************************************************)
(* SBOMClusterer: density reduction                                        *)
(***************************************************************************)
\* this.maxNodeLimit of the clusterer
ClustererMaxNodeLimit == 500

\* the score calculateNodeImportance gives a node for what it is
baseScore(node) ==
    (IF node.isCommon THEN 3 ELSE 0)
        + (IF node.type = "system" THEN 5
           ELSE IF node.type = "hardware" THEN 2
           ELSE IF node.type = "software"
           THEN IF node.subtype = "executable" THEN 2
                ELSE IF node.subtype = "library" THEN 1
                ELSE 0
           ELSE 0)

\* importance.get(id) || 0: the base score of the last node with the id, and
\* one for every link end at the id
calculateNodeImportance(nodeList, linkList, id) ==
    LET holders == {k \in 1..Len(nodeList) : nodeList[k].id = id}
        last_k == CHOOSE k \in holders : \A j \in holders : j <= k
    IN  (IF holders = {} THEN 0 ELSE baseScore(nodeList[last_k]))
            + connectionCount(linkList, id)

\* [...nodes].sort(...) by falling importance; the sort is stable
sortedNodes(nodeList, linkList) ==
    LET score(k) == calculateNodeImportance(nodeList, linkList, nodeList[k].id)
        scores == [k \in 1..Len(nodeList) |-> score(k)]
        rank(k) == 1 + Cardinality({j \in 1..Len(nodeList) :
                           \/ scores[j] > scores[k]
                           \/ (scores[j] = scores[k] /\ j < k)})
    IN  [r \in 1..Len(nodeList) |->
            nodeList[CHOOSE k \in 1..Len(nodeList) : rank(k) = r]]

\* applyDensityReduction keeping every link whose source is kept
applyDensityReduction_SourceOnly(nodeList, linkList, optMaxNodes) ==
    LET maxNodes == IF optMaxNodes # 0 THEN optMaxNodes ELSE ClustererMaxNodeLimit
        reducedNodes == SubSeq(sortedNodes(nodeList, linkList), 1, maxNodes)
        reducedNodeIds == {reducedNodes[k].id : k \in 1..Len(reducedNodes)}
    IN  IF Len(nodeList) <= maxNodes
        THEN [nodes |-> nodeList, links |-> linkList]
        ELSE [nodes |-> reducedNodes,
              links |-> SelectSeq(linkList, LAMBDA link :
                            link.source \in reducedNodeIds)]

\* optMaxNodes = 0 stands for options.maxNodes absent (or 0): the limit of
\* the clusterer applies
applyDensityReduction(nodeList, linkList, optMaxNodes) ==
    LET maxNodes == IF optMaxNodes # 0 THEN optMaxNodes ELSE ClustererMaxNodeLimit
        reducedNodes == SubSeq(sortedNodes(nodeList, linkList), 1, maxNodes)
        reducedNodeIds == {reducedNodes[k].id : k \in 1..Len(reducedNodes)}
    IN  IF Len(nodeList) <= maxNodes
        THEN [nodes |-> nodeList, links |-> linkList]
        ELSE [nodes |-> reducedNodes,
              links |-> SelectSeq(linkList, LAMBDA link :
                            /\ link.source \in reducedNodeIds
                            /\ link.target \in reducedNodeIds)]

(***************************************************************************)
(* Inputs                                                                  *)
(***************************************************************************)
\* Date.now() takes a value in 0..MaxClock, and Math.floor(Math.random() *
\* 1000) a value in 0..RandRange-1 (RandRange stands for the 1000 of
\* formatter.js 54)
MaxClock == 1
RandRange == 2

FileNames == {"a.json", "b.json"}

NoMeta == << >>

\* one system with a vendor; one hashed component and one known by file name
DocA ==
    RawDoc(TRUE, <<RawSystem("sysA", "alpha", "acme")>>,
           FALSE, << >>,
           TRUE, <<RawSoftware("u1", "libx", "1.0", "abc", <<"libx.so">>, NoMeta),
                   RawSoftware("u2", Undefined, Undefined, Undefined,
                               <<"liby.so">>, NoMeta)>>,
           << >>)

\* one system without a vendor field; the hash of DocA under another name, a
\* component without hash whose file name is that of DocA's hashed component,
\* and DocA's file-name component
DocB ==
    RawDoc(TRUE, <<RawSystem("sysB", "beta", Undefined)>>,
           FALSE, << >>,
           TRUE, <<RawSoftware("u3", "libx-renamed", "2.0", "abc",
                               <<"libx.so">>, NoMeta),
                   RawSoftware("u4", Undefined, Undefined, Undefined,
                               <<"libx.so">>, NoMeta),
                   RawSoftware("u5", Undefined, Undefined, Undefined,
                               <<"liby.so">>, NoMeta)>>,
           << >>)

\* no systems array; the same hash three times, and a component with neither
\* hash nor file name
DocC ==
    RawDoc(FALSE, << >>,
           TRUE, <<RawHardware("h1", "board")>>,
           TRUE, <<RawSoftware("u6", "tool", "1.0", "ddd", <<"tool">>, NoMeta),
                   RawSoftware("u7", "tool", "1.0", "ddd", <<"tool">>, NoMeta),
                   RawSoftware("u8", "tool", "1.0", "ddd", << >>, NoMeta),
                   RawSoftware("u9", Undefined, Undefined, Undefined, << >>,
                               NoMeta)>>,
           << >>)

StoreDocs == {DocA, DocB, DocC}

(***************************************************************************)
(* The store alone                                                         *)
(***************************************************************************)
NoCall == Call("none", NoDoc, "", "undefined")

StoreInit ==
    /\ sboms = << >>
    /\ listeners = << >>
    /\ delivered = << >>
    /\ last = NoCall
    /\ uiInstalled \in BOOLEAN

VizInit ==
    /\ threshold = ConfigThreshold
    /\ nodes = << >>
    /\ links = << >>
    /\ rawNodes = << >>
    /\ rawLinks = << >>
    /\ expandedClusters = {}
    /\ before = << >>
    /\ clicks = 0
    /\ maxNodeLimit = ConfigMaxNodeLimit
    /\ densityReductionEnabled = FALSE
    /\ rendered = << >>

ClusterInit ==
    /\ cin = << >>
    /\ cout = << >>

\* AppState.current.visibleSboms is [], the list of the sidebar is empty and
\* no render is scheduled
SidebarInit ==
    sidebar = [visibleSboms |-> << >>, items |-> << >>, pending |-> << >>]

Init == StoreInit /\ VizInit /\ ClusterInit /\ ingested = 0 /\ SidebarInit

AddSBOM ==
    \E jsonData \in StoreDocs, fileName \in FileNames,
       now \in 0..MaxClock, rnd \in 0..(RandRange - 1) :
        /\ addSBOM(jsonData, fileName, now, rnd)
        /\ UNCHANGED <<vizVars, clusterVars, ingested, sidebar>>

RemoveSBOM ==
    \E sbomId \in {sboms[i].id : i \in 1..Len(sboms)} \cup {"sbom_none"} :
        /\ removeSBOM(sbomId)
        /\ UNCHANGED <<vizVars, clusterVars, ingested, sidebar>>

Clear == clear /\ UNCHANGED <<vizVars, clusterVars, ingested, sidebar>>

Next == AddSBOM \/ RemoveSBOM \/ Clear

Spec == Init /\ [][Next]_vars

(***************************************************************************)
(* The store with the additions counted                                    *)
(***************************************************************************)
MaxIngested == 3

\* addSBOM, counted when it adds; no more than MaxIngested SBOMs are added
AddColored ==
    \E jsonData \in StoreDocs, fileName \in FileNames, rnd \in 0..(RandRange - 1) :
        /\ ingested < MaxIngested
        /\ addSBOM(jsonData, fileName, 0, rnd)
        /\ ingested' = IF isDuplicateSBOM(jsonData, fileName)
                       THEN ingested ELSE ingested + 1
        /\ UNCHANGED <<vizVars, clusterVars, sidebar>>

NextColors == AddColored \/ RemoveSBOM \/ Clear

SpecColors == Init /\ [][NextColors]_vars

(***************************************************************************)
(* The store and getComponentByUuid                                        *)
(***************************************************************************)
\* the id x is a software component here and a system in LookB, y a software
\* component here and a board in LookB, k a board here and software there
LookA ==
    RawDoc(TRUE, <<RawSystem("s1", "one", "acme")>>,
           TRUE, <<RawHardware("k", "board")>>,
           TRUE, <<RawSoftware("x", "app", "1.0", "aaa", <<"app">>, NoMeta),
                   RawSoftware("y", "lib", "1.0", "bbb", <<"lib.so">>, NoMeta)>>,
           << >>)

LookB ==
    RawDoc(TRUE, <<RawSystem("x", "two", "other")>>,
           TRUE, <<RawHardware("y", "card")>>,
           TRUE, <<RawSoftware("k", "tool", "2.0", "ccc", <<"tool">>, NoMeta),
                   RawSoftware("z", "util", "2.0", "eee", <<"util">>, NoMeta)>>,
           << >>)

\* one id for a system, a board and two software components
LookC ==
    RawDoc(TRUE, <<RawSystem("d", "three", "third")>>,
           TRUE, <<RawHardware("d", "disk")>>,
           TRUE, <<RawSoftware("d", "dup", "3.0", "ggg", <<"dup">>, NoMeta),
                   RawSoftware("d", "dup2", "3.1", "hhh", <<"dup2">>, NoMeta)>>,
           << >>)

LookDocs == {LookA, LookB, LookC}
LookUuids == {"x", "y", "k", "z", "d", "s1", "none"}

\* the files are loaded before the first lookup
AddLook ==
    \E jsonData \in LookDocs, fileName \in FileNames,
       rnd \in 0..Min(Len(sboms), RandRange - 1) :
        /\ cin = << >>
        /\ addSBOM(jsonData, fileName, 0, rnd)
        /\ UNCHANGED <<vizVars, clusterVars, ingested, sidebar>>

\* a call of getComponentByUuid: cin keeps the argument and the store the
\* call read, cout the value returned
GetComponentByUuid ==
    \E uuid \in LookUuids :
        /\ cin' = <<[uuid |-> uuid, store |-> sboms]>>
        /\ cout' = <<getComponentByUuid(sboms, uuid)>>
        /\ UNCHANGED <<storeVars, vizVars, ingested, sidebar>>

NextLook == AddLook \/ GetComponentByUuid

SpecLook == Init /\ [][NextLook]_vars

(***************************************************************************)
(* The store with its listeners                                            *)
(***************************************************************************)
MaxListeners == 1

ListenerNames == {"Sidebar.handleStoreChange", "other"}

Subscribe ==
    \E listener \in ListenerNames :
        /\ Len(listeners) < MaxListeners
        /\ subscribe(listener)
        /\ UNCHANGED <<vizVars, clusterVars, ingested, sidebar>>

Unsubscribe ==
    \E listener \in Range(listeners) :
        /\ unsubscribe(listener)
        /\ UNCHANGED <<vizVars, clusterVars, ingested, sidebar>>

\* The duplicate verdict reads no SBOM id: the clock and the random draw are
\* held at 0 here.
AddListened ==
    \E jsonData \in StoreDocs, fileName \in FileNames :
        /\ addSBOM(jsonData, fileName, 0, 0)
        /\ UNCHANGED <<vizVars, clusterVars, ingested, sidebar>>

NextListeners ==
    AddListened \/ RemoveSBOM \/ Clear \/ Subscribe \/ Unsubscribe

SpecListeners == Init /\ [][NextListeners]_vars

(***************************************************************************)
(* The duplicate heuristic on larger documents                             *)
(***************************************************************************)
\* a software record with hash h<n>
HashedSw(n) ==
    RawSoftware("s" \o ToString(n), "pkg" \o ToString(n), "1.0",
                "h" \o ToString(n), <<"f" \o ToString(n)>>, NoMeta)

\* a software record with hash x<n>, a hash no HashedSw has
ForeignSw(n) ==
    RawSoftware("o" \o ToString(n), "ext" \o ToString(n), "3.0",
                "x" \o ToString(n), <<"g" \o ToString(n)>>, NoMeta)

\* the name and version of HashedSw(n), without a hash
NamedSw(n) ==
    RawSoftware("n" \o ToString(n), "pkg" \o ToString(n), "1.0", Undefined,
                << >>, NoMeta)

\* a document with an empty systems array, no hardware array, and the software
SoftwareDoc(software) ==
    RawDoc(TRUE, << >>, FALSE, << >>, TRUE, software, << >>)

Hashed(from, to) == [i \in 1..(to - from + 1) |-> HashedSw(from + i - 1)]
Foreign(count) == [i \in 1..count |-> ForeignSw(i)]

\* ten hashed components h1..h10
Base10 == SoftwareDoc(Hashed(1, 10))
\* ten components, seven of them Base10's
Seven10 == SoftwareDoc(Hashed(1, 7) \o Foreign(3))
\* ten components, eight of them Base10's
Eight10 == SoftwareDoc(Hashed(1, 8) \o Foreign(2))
\* twelve components: seven of the first ten are Base10's, and so are the
\* eleventh and the twelfth
Tail12 == SoftwareDoc(Hashed(1, 7) \o Foreign(3) \o Hashed(8, 9))
\* Base10's first five components: a count difference of 5
Five == SoftwareDoc(Hashed(1, 5))
\* Base10's first four components: a count difference of 6
Four == SoftwareDoc(Hashed(1, 4))
\* five components without hash, with the names and versions of Base10's
Named5 == SoftwareDoc([i \in 1..5 |-> NamedSw(i)])
\* nine of Base10's components and five hardware items: differences 1 + 5
NineHw ==
    RawDoc(TRUE, << >>,
           TRUE, [i \in 1..5 |-> RawHardware("hw" \o ToString(i), "board")],
           TRUE, Hashed(1, 9), << >>)
\* Base10's software in a document without a systems array
NoSystemsKey == RawDoc(FALSE, << >>, FALSE, << >>, TRUE, Hashed(1, 10), << >>)
\* DocA's system and no software
SystemOnly ==
    RawDoc(TRUE, <<RawSystem("sysA", "alpha", "acme")>>, FALSE, << >>,
           TRUE, << >>, << >>)
\* DocA's software under another system
OtherSystem ==
    RawDoc(TRUE, <<RawSystem("sysG", "gamma", "acme")>>, FALSE, << >>,
           TRUE, DocA.software, << >>)

DupDocs == {Base10, Seven10, Eight10, Tail12, Five, Four, Named5, NineHw,
            NoSystemsKey, DocA, SystemOnly, OtherSystem}

\* The heuristic reads no SBOM id: the clock and the random draw are held
\* at 0 here.
AddDup ==
    \E jsonData \in DupDocs, fileName \in FileNames :
        /\ addSBOM(jsonData, fileName, 0, 0)
        /\ UNCHANGED <<vizVars, clusterVars, ingested, sidebar>>

NextDup == AddDup \/ Clear

SpecDup == Init /\ [][NextDup]_vars

(***************************************************************************)
(* applyClustering as a function                                           *)
(***************************************************************************)
MaxPlain == 3
MaxLib == 2
MaxSys == 2
MaxCommon == 1
ScenarioNodes == 35

\* the graph data normalizer.js builds for the document under the id
GraphOf(doc, sbomId) ==
    createGraphData([id |-> sbomId,
                     systems |-> normalizeSystems(doc.systems),
                     hardware |-> normalizeHardware(doc.hardware),
                     software |-> normalizeSoftware(doc.software),
                     relationships |-> normalizeRelationships(doc.relationships)])

ElfLibrary == <<RawMeta("Linux", TRUE, FALSE, TRUE, << >>)>>
ElfOther == <<RawMeta("Linux", TRUE, FALSE, FALSE, << >>)>>

\* nSys systems, nPlain software without ELF metadata, nLib ELF libraries;
\* the first software entry has hubDeg relationships, to the other
\* components in turn
ClusterDoc(prefix, nPlain, nLib, nSys, hubDeg) ==
    LET systems == [i \in 1..nSys |->
                       RawSystem(prefix \o "sys" \o ToString(i), "system", "acme")]
        plain == [i \in 1..nPlain |->
                     RawSoftware(prefix \o "p" \o ToString(i), "plain", "1.0",
                                 Undefined, << >>, << >>)]
        libs == [i \in 1..nLib |->
                    RawSoftware(prefix \o "l" \o ToString(i), "lib", "1.0",
                                Undefined, << >>, ElfLibrary)]
        software == plain \o libs
        uuids == MapSeq(systems \o software, LAMBDA c : c.UUID)
        hub == IF software = << >> THEN Undefined ELSE software[1].UUID
        others == SelectSeq(uuids, LAMBDA u : u # hub)
        count == IF software = << >> \/ others = << >> THEN 0 ELSE hubDeg
    IN  RawDoc(nSys > 0, systems, FALSE, << >>, TRUE, software,
               [k \in 1..count |->
                   RawRelationship(hub, others[((k - 1) % Len(others)) + 1],
                                   "Uses")])

\* the first nCommon plain components marked common, as markCommonNodes
\* marks them
MarkCommon(nodeList, prefix, nCommon) ==
    MapSeq(nodeList, LAMBDA n :
        IF n.id \in {prefix \o "p" \o ToString(i) : i \in 1..nCommon}
        THEN [n EXCEPT !.isCommon = TRUE] ELSE n)

HubDegrees == {0, CommonDegreeLimit + 1, HubDegreeLimit, HubDegreeLimit + 1}
OptThresholds == {0, 1, 3}

ClusterInput(nPlain, nLib, nSys, hubDeg, nCommon, second, optThreshold) ==
    LET first == GraphOf(ClusterDoc("a", nPlain, nLib, nSys, hubDeg), "sbom_0_0")
        other == IF second THEN GraphOf(ClusterDoc("b", 2, 0, 0, 0), "sbom_0_1")
                 ELSE [nodes |-> << >>, links |-> << >>]
    IN  [nodes |-> MarkCommon(first.nodes, "a", nCommon) \o other.nodes,
         links |-> first.links \o other.links,
         optThreshold |-> optThreshold]

\* ScenarioNodes software nodes of subtype other in one SBOM, no links,
\* clustered at the configured threshold
ScenarioInput ==
    [nodes |-> GraphOf(SoftwareDoc([i \in 1..ScenarioNodes |->
                          RawSoftware("o" \o ToString(i), "tool", "1.0",
                                      Undefined, << >>, ElfOther)]),
                       "sbom_0_0").nodes,
     links |-> << >>,
     optThreshold |-> 0]

ClusterInputs ==
    {ClusterInput(nPlain, nLib, nSys, hubDeg, nCommon, second, optThreshold) :
        nPlain \in 0..MaxPlain, nLib \in 0..MaxLib, nSys \in 0..MaxSys,
        hubDeg \in HubDegrees, nCommon \in 0..MaxCommon, second \in BOOLEAN,
        optThreshold \in OptThresholds}
    \cup {ScenarioInput}

InitCluster ==
    /\ StoreInit
    /\ VizInit
    /\ cin \in {<<input>> : input \in ClusterInputs}
    /\ cout = << >>
    /\ ingested = 0
    /\ SidebarInit

ApplyClustering ==
    /\ Len(cout) = 0
    /\ cout' = <<applyClustering(cin[1].nodes, cin[1].links, cin[1].optThreshold)>>
    /\ UNCHANGED <<storeVars, vizVars, cin, ingested, sidebar>>

NextCluster == ApplyClustering

SpecCluster == InitCluster /\ [][NextCluster]_vars

(***************************************************************************)
(* applyDensityReduction as a function                                     *)
(***************************************************************************)
MaxReduced == 4

\* the graphs of the clustering inputs, each with options.maxNodes absent or
\* 1..MaxReduced
DensityInputs ==
    {[nodes |-> input.nodes, links |-> input.links, optMaxNodes |-> optMaxNodes] :
        input \in ClusterInputs, optMaxNodes \in 0..MaxReduced}

InitDensity ==
    /\ StoreInit
    /\ VizInit
    /\ cin \in {<<input>> : input \in DensityInputs}
    /\ cout = << >>
    /\ ingested = 0
    /\ SidebarInit

ApplyDensityReduction ==
    /\ Len(cout) = 0
    /\ cout' = <<applyDensityReduction(cin[1].nodes, cin[1].links,
                                       cin[1].optMaxNodes)>>
    /\ UNCHANGED <<storeVars, vizVars, cin, ingested, sidebar>>

NextDensity == ApplyDensityReduction

SpecDensity == InitDensity /\ [][NextDensity]_vars

(***************************************************************************)
(* GraphVisualization: render, expand and collapse                         *)
(***************************************************************************)
\* markCommonNodes on one node: the first record of the map with an
\* occurrence of the node's id marks it
markCommon(node, commonComponents) ==
    LET hits == SelectSeq(commonComponents, LAMBDA e :
                    \E k \in 1..Len(e.occurrences) : e.occurrences[k].uuid = node.id)
    IN  IF hits = << >> THEN node
        ELSE [node EXCEPT !.isCommon = TRUE, !.commonKey = hits[1].key,
                          !.relatedSboms = hits[1].sbomIds]

\* options.visibleTypes: given = FALSE stands for an absent option
typeVisible(typeFilter, node) ==
    ~typeFilter.given \/ node.type \in Range(typeFilter.types)

\* the node objects of the SBOM after render has colored and marked those it
\* shows; the nodes of graphData and the displayed nodes are the same objects
nodesAfterRender(sbom, typeFilter, commonComponents) ==
    MapSeq(sbom.graphData.nodes, LAMBDA node :
        IF typeVisible(typeFilter, node)
        THEN markCommon([node EXCEPT !.color = sbom.color], commonComponents)
        ELSE node)

\* the pairwise links between the occurrences of one common component
commonLinksOf(entry) ==
    LET bySbom(id) == SelectSeq(entry.occurrences, LAMBDA o : o.sbomId = id)
        n == Len(entry.sbomIds)
        pairs == Flatten([i \in 1..n |->
                     [d \in 1..(n - i) |-> <<i, i + d>>]])
        linksOfPair(pr) ==
            Flatten(MapSeq(bySbom(entry.sbomIds[pr[1]]), LAMBDA sourceNode :
                MapSeq(bySbom(entry.sbomIds[pr[2]]), LAMBDA targetNode :
                    [source |-> sourceNode.uuid, target |-> targetNode.uuid,
                     type |-> "common_component", isCommonLink |-> TRUE,
                     sbomId |-> "common", commonKey |-> entry.key])))
    IN  Flatten(MapSeq(pairs, linksOfPair))

createCommonNodeConnections(commonComponents) ==
    Flatten(MapSeq(commonComponents, commonLinksOf))

createDependencyConnections(nodeList) ==
    LET holders(filename) ==
            SelectSeq(nodeList, LAMBDA n :
                n.type = "software" /\ filename \in Range(n.data.fileName))
        linksOfNode(node) ==
            IF node.type = "software" /\ node.data.elfMetadata.present
            THEN Flatten(MapSeq(node.data.elfMetadata.dependencies, LAMBDA depName :
                    MapSeq(SelectSeq(holders(depName), LAMBDA depNode :
                               depNode.id # node.id),
                           LAMBDA depNode :
                               [source |-> node.id, target |-> depNode.id,
                                type |-> "depends_on", isDependencyLink |-> TRUE,
                                sbomId |-> node.sbomId])))
            ELSE << >>
    IN  Flatten(MapSeq(nodeList, linksOfNode))

\* the link filter of render that asks for the source alone
filteredLinksOf_SourceOnly(sbom, filteredNodes) ==
    LET nodeIds == {filteredNodes[k].id : k \in 1..Len(filteredNodes)}
    IN  SelectSeq(sbom.graphData.links, LAMBDA link : link.source \in nodeIds)

\* the links of the SBOM between the nodes that passed the type filter
filteredLinksOf(sbom, filteredNodes) ==
    LET nodeIds == {filteredNodes[k].id : k \in 1..Len(filteredNodes)}
    IN  SelectSeq(sbom.graphData.links, LAMBDA link :
            link.source \in nodeIds /\ link.target \in nodeIds)

\* GraphVisualization.render(sboms, options), called as App.updateVisualization
\* calls it: with the SBOMs of the store whose id is in visibleSboms
render(visibleSboms, typeFilter, clusteringEnabled) ==
    LET commonComponents == findCommonComponents(sboms)
        shown(i) == sboms[i].id \in visibleSboms
        marked(i) == nodesAfterRender(sboms[i], typeFilter, commonComponents)
        filteredNodes(i) ==
            SelectSeq(marked(i), LAMBDA node : typeVisible(typeFilter, node))
        filteredLinks(i) == filteredLinksOf(sboms[i], filteredNodes(i))
        shownNodes == Flatten([i \in 1..Len(sboms) |->
                          IF shown(i) THEN filteredNodes(i) ELSE << >>])
        shownLinks == Flatten([i \in 1..Len(sboms) |->
                          IF shown(i) THEN filteredLinks(i) ELSE << >>])
                      \o createCommonNodeConnections(commonComponents)
                      \o createDependencyConnections(shownNodes)
        clustered == applyClustering(shownNodes, shownLinks, 0)
    IN  /\ sboms' = [i \in 1..Len(sboms) |->
                        IF shown(i)
                        THEN [sboms[i] EXCEPT !.graphData.nodes = marked(i)]
                        ELSE sboms[i]]
        /\ rawNodes' = shownNodes
        /\ rawLinks' = shownLinks
        /\ IF clusteringEnabled /\ Len(shownNodes) > threshold
           THEN nodes' = clustered.nodes /\ links' = clustered.links
           ELSE nodes' = shownNodes /\ links' = shownLinks
        /\ expandedClusters' = {}

\* GraphVisualization.expandCluster
expandCluster(cluster) ==
    LET expansion == VizClusters_expandCluster(cluster, rawNodes, rawLinks)
    IN  /\ expandedClusters' = expandedClusters \cup {cluster.id}
        /\ IF Len(expansion.nodes) = 0
           THEN UNCHANGED <<nodes, links>>
           ELSE /\ nodes' = nodes \o expansion.nodes
                /\ links' = links \o expansion.links

\* GraphVisualization.collapseCluster
collapseCluster(cluster) ==
    /\ expandedClusters' = expandedClusters \ {cluster.id}
    /\ nodes' = Append(SelectSeq(nodes, LAMBDA node :
                           node.id \notin Range(cluster.originalNodeIds)),
                       cluster)
    /\ links' = SelectSeq(links, LAMBDA link :
                    /\ link.source \notin Range(cluster.originalNodeIds)
                    /\ link.target \notin Range(cluster.originalNodeIds))

\* the options object App.updateVisualization hands to render, with the
\* node limit of Config at the time of the call
RenderOptions(visibleSboms, typeFilter, clusteringEnabled) ==
    [visibleSboms |-> visibleSboms,
     visibleTypes |-> typeFilter,
     clusteringEnabled |-> clusteringEnabled,
     densityReductionEnabled |-> densityReductionEnabled,
     maxNodeLimit |-> maxNodeLimit]

\* what is kept of a render: the options and the store as the render found it
Rendering(visibleSboms, typeFilter, clusteringEnabled) ==
    [options |-> RenderOptions(visibleSboms, typeFilter, clusteringEnabled),
     store |-> sboms]

\* the slider of index.html: its least value
SliderMin == 10
SliderValues == {SliderMin, ConfigThreshold}

MaxClicks == 3

\* eleven components, the first with six relationships
HubDoc == ClusterDoc("a", 11, 0, 0, HubDegreeLimit + 1)
\* three plain components and eight libraries, the first plain component
\* with relationships to two plain components and two libraries
TwoClusterDoc == ClusterDoc("b", 3, 8, 0, 4)

VizDocs == {HubDoc, TwoClusterDoc}

DefaultTypes == [given |-> TRUE, types |-> <<"software", "hardware", "systems">>]
TypeFilters == {DefaultTypes, [given |-> FALSE, types |-> << >>]}

\* one file is loaded: the display of a single SBOM
AddViz ==
    \E jsonData \in VizDocs, rnd \in 0..(RandRange - 1) :
        /\ addSBOM(jsonData, "a.json", 0, rnd)
        /\ UNCHANGED <<vizVars, clusterVars, ingested, sidebar>>

\* the input handler of the cluster threshold slider
SetThreshold ==
    \E value \in SliderValues :
        /\ threshold' = value
        /\ UNCHANGED <<storeVars, nodes, links, rawNodes, rawLinks,
                       expandedClusters, before, clicks, limitVars, rendered,
                       clusterVars, ingested, sidebar>>

Render ==
    \E visibleSboms \in SUBSET {sboms[i].id : i \in 1..Len(sboms)},
       typeFilter \in TypeFilters, clusteringEnabled \in BOOLEAN :
        /\ render(visibleSboms, typeFilter, clusteringEnabled)
        /\ rendered' = <<Rendering(visibleSboms, typeFilter, clusteringEnabled)>>
        /\ before' = << >>
        /\ clicks' = 0
        /\ UNCHANGED <<listeners, delivered, last, uiInstalled, threshold,
                       limitVars, clusterVars, ingested, sidebar>>

\* handleNodeClick on a cluster node; before keeps what was displayed when
\* the cluster was expanded, and whether the next click collapsed it again
ClickCluster ==
    \E d \in Range(nodes) :
        /\ d.isCluster
        /\ clicks < MaxClicks
        /\ clicks' = clicks + 1
        /\ IF d.id \in expandedClusters
           THEN /\ collapseCluster(d)
                /\ before' = IF Len(before) = 1 /\ before[1].cluster = d.id
                                /\ ~before[1].collapsed
                             THEN <<[before[1] EXCEPT !.collapsed = TRUE]>>
                             ELSE << >>
           ELSE /\ expandCluster(d)
                /\ before' = <<[cluster |-> d.id, nodes |-> Range(nodes),
                                links |-> Range(links), collapsed |-> FALSE]>>
        /\ UNCHANGED <<storeVars, threshold, rawNodes, rawLinks, limitVars,
                       rendered, clusterVars, ingested, sidebar>>

NextViz == AddViz \/ SetThreshold \/ Render \/ ClickCluster

SpecViz == Init /\ [][NextViz]_vars

(***************************************************************************)
(* GraphVisualization: render at the node limit                            *)
(***************************************************************************)
\* the maximum-nodes slider of index.html: its least value
LimitSliderMin == 100
LimitSliderValues == {LimitSliderMin, ConfigMaxNodeLimit}

\* one component more than the least node limit, no relationships
BigDoc == ClusterDoc("c", LimitSliderMin + 1, 0, 0, 0)

LimitDocs == {BigDoc, HubDoc}

\* one file is loaded
AddLimit ==
    \E jsonData \in LimitDocs, rnd \in 0..(RandRange - 1) :
        /\ addSBOM(jsonData, "a.json", 0, rnd)
        /\ UNCHANGED <<vizVars, clusterVars, ingested, sidebar>>

\* the input handler of the maximum-nodes slider
SetMaxNodeLimit ==
    \E value \in LimitSliderValues :
        /\ maxNodeLimit' = value
        /\ UNCHANGED <<storeVars, threshold, nodes, links, rawNodes, rawLinks,
                       expandedClusters, before, clicks,
                       densityReductionEnabled, rendered, clusterVars,
                       ingested, sidebar>>

\* the change handler of the density reduction checkbox
SetDensityReduction ==
    \E checked \in BOOLEAN :
        /\ densityReductionEnabled' = checked
        /\ UNCHANGED <<storeVars, threshold, nodes, links, rawNodes, rawLinks,
                       expandedClusters, before, clicks, maxNodeLimit,
                       rendered, clusterVars, ingested, sidebar>>

\* App.updateVisualization with every SBOM of the store visible and the type
\* filter of the initial state
RenderAll ==
    \E clusteringEnabled \in BOOLEAN :
      LET visibleSboms == {sboms[i].id : i \in 1..Len(sboms)}
      IN  /\ Len(sboms) > 0
          /\ render(visibleSboms, DefaultTypes, clusteringEnabled)
          /\ rendered' = <<Rendering(visibleSboms, DefaultTypes,
                                     clusteringEnabled)>>
          /\ before' = << >>
          /\ clicks' = 0
          /\ UNCHANGED <<listeners, delivered, last, uiInstalled, threshold,
                         limitVars, clusterVars, ingested, sidebar>>

NextLimit == AddLimit \/ SetMaxNodeLimit \/ SetDensityReduction \/ RenderAll

SpecLimit == Init /\ [][NextLimit]_vars

(***************************************************************************)
(* GraphVisualization: render of several SBOMs under the type filter       *)
(***************************************************************************)
\* the values of the type checkboxes, in document order
FilterOptions == <<"software", "hardware", "systems">>

\* AppState.current.visibleTypes after updateTypeFilters: the values of the
\* checked boxes
CheckedTypes(checked) ==
    [given |-> TRUE,
     types |-> SelectSeq(FilterOptions, LAMBDA value : value \in checked)]

FilterChoices ==
    {CheckedTypes(checked) :
        checked \in {{"software", "hardware", "systems"}, {"software"}}}

\* a system, a board and two components; relationships from the system, from
\* the board, between the components, and to and from ids of no component
DocR ==
    RawDoc(TRUE, <<RawSystem("sysR", "rho", "acme")>>,
           TRUE, <<RawHardware("hR", "board")>>,
           TRUE, <<RawSoftware("r1", "app", "1.0", "eee", <<"app">>, NoMeta),
                   RawSoftware("r2", "lib", "1.0", "fff", <<"lib.so">>, NoMeta)>>,
           <<RawRelationship("sysR", "r1", "Contains"),
             RawRelationship("r1", "r2", "Uses"),
             RawRelationship("r1", "ghost", "Uses"),
             RawRelationship("ghost", "r2", "Uses"),
             RawRelationship("hR", "r1", "Runs")>>)

\* the hash of DocC twice, with a relationship between the two
DocD ==
    RawDoc(FALSE, << >>, FALSE, << >>,
           TRUE, <<RawSoftware("u10", "tool", "1.1", "ddd", <<"tool">>, NoMeta),
                   RawSoftware("u11", "tool", "1.1", "ddd", <<"tool">>, NoMeta)>>,
           <<RawRelationship("u10", "u11", "Uses")>>)

RenderDocs == {DocR, DocC, DocD}

\* the files are loaded before the first render; the first draw of the id
\* is 0, the second one is 0 again or 1
AddRender ==
    \E jsonData \in RenderDocs, fileName \in FileNames,
       rnd \in 0..Min(Len(sboms), RandRange - 1) :
        /\ rendered = << >>
        /\ addSBOM(jsonData, fileName, 0, rnd)
        /\ UNCHANGED <<vizVars, clusterVars, ingested, sidebar>>

\* App.updateVisualization, which renders when an SBOM of the store is
\* visible; clustering is off
RenderFiltered ==
    \E visibleSboms \in SUBSET {sboms[i].id : i \in 1..Len(sboms)},
       typeFilter \in FilterChoices :
        /\ visibleSboms # {}
        /\ render(visibleSboms, typeFilter, FALSE)
        /\ rendered' = <<Rendering(visibleSboms, typeFilter, FALSE)>>
        /\ before' = << >>
        /\ clicks' = 0
        /\ UNCHANGED <<listeners, delivered, last, uiInstalled, threshold,
                       limitVars, clusterVars, ingested, sidebar>>

\* an SBOM is removed from the sidebar once the graph has been rendered
RemoveRendered ==
    \E sbomId \in {sboms[i].id : i \in 1..Len(sboms)} :
        /\ rendered # << >>
        /\ removeSBOM(sbomId)
        /\ UNCHANGED <<vizVars, clusterVars, ingested, sidebar>>

NextRender == AddRender \/ RemoveRendered \/ RenderFiltered

SpecRender == Init /\ [][NextRender]_vars

(***************************************************************************)
(* The store and repeated calls of findCommonComponents                    *)
(***************************************************************************)
MaxCalls == 2

\* the files are loaded before the first call
AddCommon ==
    \E jsonData \in StoreDocs, fileName \in FileNames,
       rnd \in 0..Min(Len(sboms), RandRange - 1) :
        /\ cin = << >>
        /\ addSBOM(jsonData, fileName, 0, rnd)
        /\ UNCHANGED <<vizVars, clusterVars, ingested, sidebar>>

\* an SBOM is removed between two calls
RemoveCommon ==
    \E sbomId \in {sboms[i].id : i \in 1..Len(sboms)} :
        /\ last.op = "findCommonComponents"
        /\ removeSBOM(sbomId)
        /\ UNCHANGED <<vizVars, clusterVars, ingested, sidebar>>

\* a call of findCommonComponents(); cin counts the calls made in a row and
\* keeps the collection the call found, cout keeps the Map it returned
FindCommonComponents ==
    LET n == IF last.op = "findCommonComponents" THEN cin[1].n + 1 ELSE 1
    IN  /\ n <= MaxCalls
        /\ cin' = <<[store |-> sboms, n |-> n]>>
        /\ cout' = <<findCommonComponents(sboms)>>
        /\ last' = Call("findCommonComponents", NoDoc, "", "map")
        /\ delivered' = << >>
        /\ UNCHANGED <<sboms, listeners, uiInstalled, vizVars, ingested, sidebar>>

NextCommon == AddCommon \/ RemoveCommon \/ FindCommonComponents

SpecCommon == Init /\ [][NextCommon]_vars

(***************************************************************************)
(* FileHandler and SBOMParser: the batch import                            *)
(***************************************************************************)
\* A file is [name, content]; the content is a JSON document, text that is
\* not JSON, or cannot be read.
JsonFile(name, doc) == [name |-> name, content |-> [kind |-> "json", doc |-> doc]]
InvalidFile(name) == [name |-> name, content |-> [kind |-> "invalid"]]
UnreadableFile(name) == [name |-> name, content |-> [kind |-> "unreadable"]]

\* the file names of the model and file.name.toLowerCase().endsWith('.json')
\* on each of them
ImportNames == {"a.json", "b.json", "notes.txt"}
endsWithJson(name) == name \in {"a.json", "b.json"}

\* the settlement of the promise readAsJSON(file) returns
readAsJSON(file) ==
    IF file.content.kind = "json"
    THEN [resolved |-> TRUE, value |-> file.content.doc, error |-> ""]
    ELSE IF file.content.kind = "invalid"
    THEN [resolved |-> FALSE, value |-> NoDoc, error |-> "Invalid JSON file"]
    ELSE [resolved |-> FALSE, value |-> NoDoc, error |-> "Failed to read file"]

\* the settlement of the promise handleFiles(files) returns: Promise.all over
\* the reads of the files that pass the name filter, in the order of files
handleFiles(files) ==
    IF Len(files) = 0 THEN [resolved |-> TRUE, value |-> << >>]
    ELSE LET jsonFiles == SelectSeq(files, LAMBDA f : endsWithJson(f.name))
             reads == MapSeq(jsonFiles, readAsJSON)
         IN  IF \E i \in 1..Len(reads) : ~reads[i].resolved
             THEN [resolved |-> FALSE, value |-> << >>]
             ELSE [resolved |-> TRUE, value |-> MapSeq(reads, LAMBDA r : r.value)]

\* addSBOM(jsonData, fileName) on the collection store: the collection it
\* leaves, the notifications it makes, its outcome and the SBOM it built
addSBOMTo(store, jsonData, fileName, now, rnd, ui) ==
    IF isDuplicateIn(store, jsonData, fileName)
    THEN [store |-> store, delivered |-> << >>, result |-> "null",
          sbom |-> << >>]
    ELSE LET sbom == sbomFor(store, jsonData, fileName, now, rnd)
         IN  [store |-> Append(store, sbom),
              delivered |-> notifyListeners("sbom-added", sbom.id),
              result |-> IF ui THEN "threw" ELSE "sbom",
              sbom |-> <<sbom>>]

\* the forEach of parseFiles from position index on: acc holds the
\* collection, the array sboms the callback fills, the notifications and the
\* names reported as failed
RECURSIVE forEachJsonData(_, _, _, _, _, _)
forEachJsonData(acc, jsonDataArray, files, rnds, ui, index) ==
    IF index > Len(jsonDataArray) THEN acc
    ELSE LET fileName == files[index].name
             call == addSBOMTo(acc.store, jsonDataArray[index], fileName, 0,
                               rnds[index], ui)
             step == [store |-> call.store,
                      sboms |-> IF call.result = "sbom"
                                THEN acc.sboms \o call.sbom ELSE acc.sboms,
                      delivered |-> acc.delivered \o call.delivered,
                      failed |-> IF call.result = "threw"
                                 THEN Append(acc.failed, fileName)
                                 ELSE acc.failed]
         IN  forEachJsonData(step, jsonDataArray, files, rnds, ui, index + 1)

\* parseFiles(files): the collection afterwards, the array the promise
\* resolves to, the notifications and the names reported as failed; when
\* handleFiles rejects, the catch handler logs one error for the batch and
\* the promise resolves to []
parseFiles(store, files, rnds, ui) ==
    LET read == handleFiles(files)
        start == [store |-> store, sboms |-> << >>, delivered |-> << >>,
                  failed |-> << >>]
    IN  IF read.resolved
        THEN forEachJsonData(start, read.value, files, rnds, ui, 1)
        ELSE start

MaxBatch == 3

ImportDocs == {DocA, DocC}

ImportFiles ==
    {JsonFile(n, d) : n \in ImportNames, d \in ImportDocs}
        \cup {InvalidFile(n) : n \in ImportNames}
        \cup {UnreadableFile("b.json")}

\* the batches: up to MaxBatch files
Batches == UNION {[1..n -> ImportFiles] : n \in 0..MaxBatch}

\* one import; the k-th draw of Math.random is one of
\* the first k values
ParseFiles ==
    \E files \in Batches :
        \E rnds \in [1..MaxBatch -> 0..(RandRange - 1)] :
            /\ cin = << >>
            /\ \A k \in 1..MaxBatch : rnds[k] < k
            /\ LET done == parseFiles(sboms, files, rnds, uiInstalled)
               IN  /\ sboms' = done.store
                   /\ delivered' = done.delivered
                   /\ last' = Call("parseFiles", NoDoc, "", "resolved")
                   /\ cin' = <<[files |-> files, store |-> sboms]>>
                   /\ cout' = <<[sboms |-> done.sboms, failed |-> done.failed]>>
            /\ UNCHANGED <<listeners, uiInstalled, vizVars, ingested, sidebar>>

\* one SBOM may be in the store before the import
AddImport ==
    \E jsonData \in ImportDocs, fileName \in FileNames :
        /\ sboms = << >>
        /\ cin = << >>
        /\ addSBOM(jsonData, fileName, 0, 0)
        /\ UNCHANGED <<vizVars, clusterVars, ingested, sidebar>>

NextImport == AddImport \/ ParseFiles

SpecImport == Init /\ [][NextImport]_vars

(***************************************************************************)
(* Sidebar: the SBOM list and the visible SBOMs                            *)
(***************************************************************************)
\* Sidebar.updateSBOMList() for the collection store and the array visible
\* of AppState.current.visibleSboms: the array afterwards and the items of
\* the list, each with the isActive its click handler has closed over
updateSBOMList(store, visible) ==
    IF Len(store) = 0 THEN [visibleSboms |-> visible, items |-> << >>]
    ELSE LET newSboms == SelectSeq(store, LAMBDA sbom :
                             sbom.id \notin Range(visible))
             selected == visible \o MapSeq(newSboms, LAMBDA sbom : sbom.id)
             all == IF Len(selected) = 0
                    THEN MapSeq(store, LAMBDA sbom : sbom.id)
                    ELSE selected
         IN  [visibleSboms |-> all,
              items |-> MapSeq(store, LAMBDA sbom :
                            [sbomId |-> sbom.id,
                             isActive |-> sbom.id \in Range(all)])]

\* Sidebar.handleStoreChange, the listener Sidebar.initialize subscribes
SidebarListener == "Sidebar.handleStoreChange"

\* the sidebar after the listeners were told of a change of the collection,
\* which is store afterwards
handleStoreChange(store) ==
    IF SidebarListener \in Range(listeners)
    THEN LET updated == updateSBOMList(store, sidebar.visibleSboms)
         IN  [sidebar EXCEPT !.visibleSboms = updated.visibleSboms,
                             !.items = updated.items]
    ELSE sidebar

\* the ids of the SBOMs App.updateVisualization finds visible
visibleOf(store, visible) ==
    {store[i].id : i \in {i \in 1..Len(store) : store[i].id \in Range(visible)}}

\* the click handler of the k-th item of the list: the toggle, the rebuilt
\* list, and the event that makes App.updateVisualization schedule a render
\* of the SBOMs it finds visible
clickItem(k) ==
    LET item == sidebar.items[k]
        visible == sidebar.visibleSboms
        toggled == IF item.isActive
                   THEN IF Len(visible) > 1
                        THEN SelectSeq(visible, LAMBDA id : id # item.sbomId)
                        ELSE visible
                   ELSE Append(visible, item.sbomId)
        updated == updateSBOMList(sboms, toggled)
        shown == visibleOf(sboms, updated.visibleSboms)
    IN  /\ sidebar' = [visibleSboms |-> updated.visibleSboms,
                       items |-> updated.items,
                       pending |-> IF shown = {} THEN << >> ELSE <<shown>>]
        /\ last' = Call("click", NoDoc, item.sbomId, "undefined")
        /\ delivered' = << >>
        /\ UNCHANGED <<sboms, listeners, uiInstalled>>

SidebarDocs == {DocA, DocC}

\* the state after Sidebar.initialize()
InitSidebar ==
    /\ sboms = << >>
    /\ listeners = <<SidebarListener>>
    /\ delivered = << >>
    /\ last = NoCall
    /\ uiInstalled \in BOOLEAN
    /\ VizInit
    /\ ClusterInit
    /\ ingested = 0
    /\ SidebarInit

\* the user acts when the render of the last click has run, and loads the
\* files before the first click
AddSidebar ==
    \E jsonData \in SidebarDocs, fileName \in FileNames,
       rnd \in 0..Min(Len(sboms), RandRange - 1) :
        /\ sidebar.pending = << >>
        /\ rendered = << >>
        /\ addSBOM(jsonData, fileName, 0, rnd)
        /\ sidebar' = IF isDuplicateSBOM(jsonData, fileName) THEN sidebar
                      ELSE handleStoreChange(sboms')
        /\ UNCHANGED <<vizVars, clusterVars, ingested>>

\* an SBOM is removed once the graph has been rendered
RemoveSidebar ==
    \E sbomId \in {sboms[i].id : i \in 1..Len(sboms)} :
        /\ sidebar.pending = << >>
        /\ rendered # << >>
        /\ removeSBOM(sbomId)
        /\ sidebar' = handleStoreChange(sboms')
        /\ UNCHANGED <<vizVars, clusterVars, ingested>>

ClickItem ==
    \E k \in 1..Len(sidebar.items) :
        /\ sidebar.pending = << >>
        /\ clickItem(k)
        /\ UNCHANGED <<vizVars, clusterVars, ingested>>

\* the timer of App.updateVisualization fires: the graph is rendered with
\* the SBOMs found visible and the options of the initial state
RenderScheduled ==
    /\ sidebar.pending # << >>
    /\ render(sidebar.pending[1], DefaultTypes, FALSE)
    /\ rendered' = <<Rendering(sidebar.pending[1], DefaultTypes, FALSE)>>
    /\ before' = << >>
    /\ clicks' = 0
    /\ sidebar' = [sidebar EXCEPT !.pending = << >>]
    /\ UNCHANGED <<listeners, delivered, last, uiInstalled, threshold,
                   limitVars, clusterVars, ingested>>

NextSidebar == AddSidebar \/ RemoveSidebar \/ ClickItem \/ RenderScheduled

SpecSidebar == InitSidebar /\ [][NextSidebar]_vars

(***************************************************************************)
(* The store fed with schema-incomplete documents                          *)
(***************************************************************************)
\* a record none of whose expected properties is there
Bare == [comments |-> "none"]

\* metadata entries: another OS, Linux without elfIdent, and a Linux ELF
\* entry that has nothing but its marks
MetaWindows == [OS |-> "Windows", elfIdent |-> TRUE, elfIsExe |-> TRUE]
MetaNoIdent == [OS |-> "Linux"]
MetaLinuxElf == [OS |-> "Linux", elfIdent |-> TRUE]

\* only a software array: records without name, file names, hashes, sizes or
\* metadata, records whose metadata has no qualifying entry, and one whose
\* qualifying entry comes second; no relationships property
SparseSoftwareOnly ==
    [hasSystems |-> FALSE, systems |-> << >>,
     hasHardware |-> FALSE, hardware |-> << >>,
     hasSoftware |-> TRUE,
     software |-> <<Bare,
                    [UUID |-> "p1", metadata |-> <<MetaWindows, MetaNoIdent>>],
                    [UUID |-> "p2", fileName |-> << >>, metadata |-> << >>],
                    [name |-> "tool", size |-> 7,
                     metadata |-> <<MetaWindows, MetaLinuxElf>>]>>]

\* only relationships, each with a missing endpoint or a missing label
SparseRelationshipsOnly ==
    [hasSystems |-> FALSE, systems |-> << >>,
     hasHardware |-> FALSE, hardware |-> << >>,
     hasSoftware |-> FALSE, software |-> << >>,
     relationships |-> <<[xUUID |-> "p1", relationship |-> "Contains"],
                         [yUUID |-> "p1"],
                         Bare>>]

\* systems, hardware and software whose records lack their fields
SparseRecords ==
    [hasSystems |-> TRUE, systems |-> <<Bare, [name |-> "", captureEnd |-> 5]>>,
     hasHardware |-> TRUE, hardware |-> <<Bare, [UUID |-> "p3"]>>,
     hasSoftware |-> TRUE, software |-> <<[sha256 |-> "abc"], Bare>>,
     relationships |-> <<[xUUID |-> "p3", yUUID |-> ""]>>]

\* no property at all
SparseEmpty ==
    [hasSystems |-> FALSE, systems |-> << >>,
     hasHardware |-> FALSE, hardware |-> << >>,
     hasSoftware |-> FALSE, software |-> << >>]

\* software records with a name, an empty name or none, and with file names,
\* an empty fileName array, an empty first file name or no fileName
SparseNames ==
    [hasSystems |-> FALSE, systems |-> << >>,
     hasHardware |-> FALSE, hardware |-> << >>,
     hasSoftware |-> TRUE,
     software |-> <<[name |-> "tool", fileName |-> <<"t.bin">>],
                    [name |-> "", fileName |-> <<"f.so">>],
                    [fileName |-> <<"g.so", "h.so">>],
                    [name |-> "", fileName |-> << >>],
                    [name |-> "kit"],
                    [fileName |-> <<"">>],
                    [name |-> "", fileName |-> <<"", "k.so">>]>>]

SparseDocs == {SparseSoftwareOnly, SparseRelationshipsOnly, SparseRecords,
               SparseEmpty, SparseNames}

AddSparse ==
    \E jsonData \in SparseDocs, fileName \in FileNames,
       rnd \in 0..Min(Len(sboms), RandRange - 1) :
        /\ addSBOM(jsonData, fileName, 0, rnd)
        /\ UNCHANGED <<vizVars, clusterVars, ingested, sidebar>>

NextSparse == AddSparse \/ RemoveSBOM \/ Clear

SpecSparse == Init /\ [][NextSparse]_vars

(***************************************************************************)
(* Claims about the common-component index                                 *)
(***************************************************************************)
StoreIds == {sboms[i].id : i \in 1..Len(sboms)}

\* the identity keys that occur in the SBOM at position i of the store
KeysAt(i) ==
    {identityKey(sboms[i].software[k]) : k \in 1..Len(sboms[i].software)}
        \ {Undefined}

CommonKeys == {findCommonComponents(sboms)[n].key :
                  n \in 1..Len(findCommonComponents(sboms))}

\* C1: in the map findCommonComponents returns, every record lists at least
\* two distinct sbomIds, all of SBOMs in the store; a key whose occurrences
\* all lie in one SBOM is absent; a key that occurs in two different SBOMs
\* of the store is present.
C1_CommonNeedsSpread ==
    LET map == findCommonComponents(sboms)
    IN  /\ \A n \in 1..Len(map) :
              /\ Cardinality(Range(map[n].sbomIds)) >= 2
              /\ Range(map[n].sbomIds) \subseteq StoreIds
        /\ \A i \in 1..Len(sboms) : \A key \in KeysAt(i) :
              (\A j \in 1..Len(sboms) : j # i => key \notin KeysAt(j))
                  => key \notin CommonKeys
        /\ \A i, j \in 1..Len(sboms) :
              i # j => \A key \in KeysAt(i) \cap KeysAt(j) : key \in CommonKeys

\* C1 read with "two different SBOMs" as "SBOMs with two different ids":
\* this holds, so C1 fails only where two SBOMs share an id
C1_SpreadOverDistinctIds ==
    LET map == findCommonComponents(sboms)
    IN  /\ \A n \in 1..Len(map) :
              /\ Cardinality(Range(map[n].sbomIds)) >= 2
              /\ Range(map[n].sbomIds) \subseteq StoreIds
        /\ \A i \in 1..Len(sboms) : \A key \in KeysAt(i) :
              (\A j \in 1..Len(sboms) : j # i => key \notin KeysAt(j))
                  => key \notin CommonKeys
        /\ \A i, j \in 1..Len(sboms) :
              sboms[i].id # sboms[j].id
                  => \A key \in KeysAt(i) \cap KeysAt(j) : key \in CommonKeys

\* C2: a component is keyed by its hash when it has one, else by its first
\* file name, else left out; two components with the same hash in two
\* different SBOMs form exactly one record, keyed by the hash; no record
\* holds a hashed component together with one keyed by name.
C2_HashBeforeName ==
    LET map == findCommonComponents(sboms)
        hashed(c) == c.sha256 # ""
    IN  /\ \A n \in 1..Len(map) : \A o \in Range(map[n].occurrences) :
              /\ hashed(o.component) => map[n].key = "sha256:" \o o.component.sha256
              /\ ~hashed(o.component) =>
                    /\ Len(o.component.fileName) > 0
                    /\ map[n].key = "name:" \o o.component.fileName[1]
        /\ \A n \in 1..Len(map) : \A o1, o2 \in Range(map[n].occurrences) :
              hashed(o1.component) <=> hashed(o2.component)
        /\ \A i, j \in 1..Len(sboms) : i # j =>
              \A c1 \in Range(sboms[i].software), c2 \in Range(sboms[j].software) :
                  (hashed(c1) /\ c1.sha256 = c2.sha256) =>
                      /\ Cardinality({n \in 1..Len(map) :
                              map[n].key = "sha256:" \o c1.sha256}) = 1
                      /\ \A n \in 1..Len(map) :
                            map[n].key = "sha256:" \o c1.sha256 =>
                                {c1, c2} \subseteq
                                    {o.component : o \in Range(map[n].occurrences)}

\* C2 for SBOMs with different ids: holds
C2_HashBeforeNameDistinctIds ==
    LET map == findCommonComponents(sboms)
        hashed(c) == c.sha256 # ""
    IN  /\ \A n \in 1..Len(map) : \A o \in Range(map[n].occurrences) :
              /\ hashed(o.component) => map[n].key = "sha256:" \o o.component.sha256
              /\ ~hashed(o.component) =>
                    /\ Len(o.component.fileName) > 0
                    /\ map[n].key = "name:" \o o.component.fileName[1]
        /\ \A n \in 1..Len(map) : \A o1, o2 \in Range(map[n].occurrences) :
              hashed(o1.component) <=> hashed(o2.component)
        /\ \A i, j \in 1..Len(sboms) : sboms[i].id # sboms[j].id =>
              \A c1 \in Range(sboms[i].software), c2 \in Range(sboms[j].software) :
                  (hashed(c1) /\ c1.sha256 = c2.sha256) =>
                      /\ Cardinality({n \in 1..Len(map) :
                              map[n].key = "sha256:" \o c1.sha256}) = 1
                      /\ \A n \in 1..Len(map) :
                            map[n].key = "sha256:" \o c1.sha256 =>
                                {c1, c2} \subseteq
                                    {o.component : o \in Range(map[n].occurrences)}

(***************************************************************************)
(* Claims about addSBOM and the duplicate heuristic                        *)
(***************************************************************************)
\* C3: an addSBOM call whose submission isDuplicateSBOM classifies as a
\* duplicate returns null, leaves the collection as it was (members, order,
\* ids, colors) and delivers no notification to any listener.
C3_DuplicateChangesNothing ==
    [][(last'.op = "addSBOM" /\ isDuplicateSBOM(last'.doc, last'.fileName))
          => /\ last'.result = "null"
             /\ sboms' = sboms
             /\ delivered' = << >>
             /\ listeners' = listeners]_vars

\* a duplicate by content (its file name is new) was refused while a
\* listener was subscribed
C3_Witness ==
    /\ last.op = "addSBOM"
    /\ last.result = "null"
    /\ Len(listeners) > 0
    /\ \A i \in 1..Len(sboms) : sboms[i].fileName # last.fileName

\* the SBOM was built from the document
BuiltFrom(sbom, doc) ==
    /\ sbom.systems = normalizeSystems(doc.systems)
    /\ sbom.hardware = normalizeHardware(doc.hardware)
    /\ sbom.software = normalizeSoftware(doc.software)
    /\ sbom.relationships = normalizeRelationships(doc.relationships)

\* C5: when the store holds an SBOM built from a document with at least one
\* system, addSBOM of the same document under another file name returns null.
C5_ResubmissionIsDuplicate ==
    [][(/\ last'.op = "addSBOM"
        /\ Len(last'.doc.systems) >= 1
        /\ \E i \in 1..Len(sboms) :
              /\ BuiltFrom(sboms[i], last'.doc)
              /\ sboms[i].fileName # last'.fileName)
          => last'.result = "null"]_vars

\* the rule of the claims, written from their words --------------------------
\* the summed absolute count differences, an absent array counting as empty
RuleCountDiff(doc, sbom) ==
    Abs(Len(doc.software) - Len(sbom.software))
        + Abs(Len(doc.systems) - Len(sbom.systems))
        + Abs(Len(doc.hardware) - Len(sbom.hardware))

\* some new system's (name, vendor) pair is an existing system's pair
RuleSystemMatch(doc, sbom) ==
    \E i \in 1..Len(doc.systems), j \in 1..Len(sbom.systems) :
        <<doc.systems[i].name, doc.systems[i].vendor>>
            = <<sbom.systems[j].name, sbom.systems[j].vendor>>

\* entry k of the new document matches: by hash when it has one, else by
\* name and version when it has both
RuleEntryMatches(doc, sbom, k) ==
    LET sw == doc.software[k]
    IN  IF sw.sha256 \notin {Undefined, ""}
        THEN \E j \in 1..Len(sbom.software) : sbom.software[j].sha256 = sw.sha256
        ELSE /\ sw.name \notin {Undefined, ""}
             /\ sw.version \notin {Undefined, ""}
             /\ \E j \in 1..Len(sbom.software) :
                   /\ sbom.software[j].name = sw.name
                   /\ sbom.software[j].version = sw.version

\* the matches among the first `sample` entries
RuleMatchCount(doc, sbom, sample) ==
    Cardinality({k \in 1..sample : RuleEntryMatches(doc, sbom, k)})

RuleContentMatch(doc, sbom) ==
    IF Len(doc.systems) >= 1 /\ Len(sbom.systems) >= 1
    THEN RuleSystemMatch(doc, sbom)
    ELSE /\ Len(doc.software) >= 1
         /\ LET sample == IF Len(doc.software) < 10 THEN Len(doc.software) ELSE 10
            IN  10 * RuleMatchCount(doc, sbom, sample) > 7 * sample

RuleDuplicate(doc, fileName) ==
    \/ \E i \in 1..Len(sboms) : sboms[i].fileName = fileName
    \/ \E i \in 1..Len(sboms) :
          RuleCountDiff(doc, sboms[i]) <= 5 /\ RuleContentMatch(doc, sboms[i])

\* C4: addSBOM refuses a document (isDuplicateSBOM returns true) exactly when
\* the rule fires, an absent top-level array counting as empty.
C4_DuplicateExactlyByRule ==
    [][last'.op = "addSBOM"
          => (last'.result = "null" <=> RuleDuplicate(last'.doc, last'.fileName))]_vars

C6_EightOfTenRefused ==
    /\ Len(sboms) = 1
    /\ BuiltFrom(sboms[1], Base10)
    /\ last.op = "addSBOM" /\ last.doc = Eight10 /\ last.result = "null"
    /\ last.fileName # sboms[1].fileName

(***************************************************************************)
(* Claims about the colors and the ids of the store                        *)
(***************************************************************************)
\* C18: while no more SBOMs have been added than the palette has colors, no
\* two SBOMs of the store have the same color: a color is not given again
\* after a removal while an SBOM of the store holds it.
C18_ColorsDistinctBeforeWraparound ==
    ingested <= Len(colorPalette)
        => \A i, j \in 1..Len(sboms) :
              sboms[i].color = sboms[j].color => i = j

\* C19: no two SBOMs in the store have the same id, whatever the clock
\* and the random draw were when they were added.
C19_IdsUnique ==
    \A i, j \in 1..Len(sboms) : sboms[i].id = sboms[j].id => i = j

\* the first component of the kind with the uuid, SBOMs in the order of the
\* store; the empty sequence when there is none
FirstOfKind(store, list, type, uuid) ==
    LET hits == Flatten([i \in 1..Len(store) |->
                    [k \in 1..Len(SelectSeq(store[i][list],
                                           LAMBDA c : c.uuid = uuid)) |->
                        [found |-> TRUE,
                         component |-> SelectSeq(store[i][list],
                                                 LAMBDA c : c.uuid = uuid)[k],
                         sbomId |-> store[i].id, type |-> type]]])
    IN  IF hits = << >> THEN << >> ELSE <<hits[1]>>

\* the match the priority order systems, hardware, software across all SBOMs
\* gives
FirstByKind(store, uuid) ==
    LET matches == FirstOfKind(store, "systems", "system", uuid)
                       \o FirstOfKind(store, "hardware", "hardware", uuid)
                       \o FirstOfKind(store, "software", "software", uuid)
    IN  IF matches = << >> THEN NotFound ELSE matches[1]

\* C20: getComponentByUuid returns the first system with the id, SBOMs in
\* ingestion order; if no system has it the first hardware component, and if
\* no hardware component has it the first software component; it returns
\* null iff no component of the store has the id.
C20_SystemsThenHardwareThenSoftware ==
    \A c \in 1..Len(cout) :
        /\ cout[c] = FirstByKind(cin[c].store, cin[c].uuid)
        /\ cout[c] = NotFound
              <=> \A i \in 1..Len(cin[c].store) :
                     \A list \in {"systems", "hardware", "software"} :
                         \A k \in 1..Len(cin[c].store[i][list]) :
                             cin[c].store[i][list][k].uuid # cin[c].uuid

\* the last part of C20 alone
C20_NullIffAbsent ==
    \A c \in 1..Len(cout) :
        cout[c] = NotFound
            <=> \A i \in 1..Len(cin[c].store) :
                   \A list \in {"systems", "hardware", "software"} :
                       \A k \in 1..Len(cin[c].store[i][list]) :
                           cin[c].store[i][list][k].uuid # cin[c].uuid

\* within one SBOM the order is systems, hardware, software
C20_PriorityWithinOneSbom ==
    \A c \in 1..Len(cout) :
        Len(cin[c].store) = 1
            => cout[c] = FirstByKind(cin[c].store, cin[c].uuid)

(***************************************************************************)
(* Claims about applyClustering                                            *)
(***************************************************************************)
\* the threshold the call compares the node count with
LimitOf(input) ==
    IF input.optThreshold # 0 THEN input.optThreshold ELSE threshold

Clustered(input) == Len(input.nodes) > LimitOf(input)

\* the positions of the nodes in the node's (sbomId, type, subtype) group
GroupOf(nodeList, k) ==
    {m \in 1..Len(nodeList) :
        <<nodeList[m].sbomId, nodeList[m].type, nodeList[m].subtype>>
            = <<nodeList[k].sbomId, nodeList[k].type, nodeList[k].subtype>>}

ClusterNodesOf(result) == {n \in Range(result.nodes) : n.isCluster}

\* C8: in the output of applyClustering no cluster node has nodeCount 1 or
\* fewer than 2 originalNodeIds, and the one node of a group of size 1 is in
\* the output as it was in the input.
C8_NoSingletonClusters ==
    \A i \in 1..Len(cout) :
        /\ \A c \in ClusterNodesOf(cout[i]) :
              c.nodeCount >= 2 /\ Len(c.originalNodeIds) >= 2
        /\ \A k \in 1..Len(cin[i].nodes) :
              GroupOf(cin[i].nodes, k) = {k}
                  => /\ cin[i].nodes[k] \in Range(cout[i].nodes)
                     /\ ~cin[i].nodes[k].isCluster

\* clustering was applied to an input with a group of size 1 and a larger one
C8_Witness ==
    /\ Len(cout) = 1
    /\ Clustered(cin[1])
    /\ ClusterNodesOf(cout[1]) # {}
    /\ \E k \in 1..Len(cin[1].nodes) :
          /\ GroupOf(cin[1].nodes, k) = {k}
          /\ cin[1].nodes[k].type = "software"
          /\ cin[1].nodes[k] \in Range(cout[1].nodes)

\* C9: above the threshold every (sbomId, type, subtype) group of size at
\* least 2 becomes exactly one cluster node, with nodeCount the group size,
\* originalNodeIds the ids of the members and isCommon true iff a member is
\* common, and there is no other cluster node; the scenario's nodes are
\* replaced by one cluster node that counts them all; at or below the
\* threshold nodes and links are returned as they were given.
C9_GroupsBecomeClusters ==
    \A i \in 1..Len(cout) :
        LET input == cin[i]
            result == cout[i]
            clusterOf(k) ==
                {c \in ClusterNodesOf(result) :
                    <<c.sbomId, c.type, c.subtype>>
                        = <<input.nodes[k].sbomId, input.nodes[k].type,
                            input.nodes[k].subtype>>}
            positions(c) ==
                {p \in 1..Len(result.nodes) : result.nodes[p] = c}
        IN  IF ~Clustered(input)
            THEN result.nodes = input.nodes /\ result.links = input.links
            ELSE /\ \A k \in 1..Len(input.nodes) :
                       LET group == GroupOf(input.nodes, k)
                       IN  IF Cardinality(group) >= 2
                           THEN /\ Cardinality(clusterOf(k)) = 1
                                /\ \A c \in clusterOf(k) :
                                      /\ Cardinality(positions(c)) = 1
                                      /\ c.nodeCount = Cardinality(group)
                                      /\ Len(c.originalNodeIds) = Cardinality(group)
                                      /\ Range(c.originalNodeIds)
                                            = {input.nodes[m].id : m \in group}
                                      /\ c.isCommon
                                            <=> \E m \in group : input.nodes[m].isCommon
                           ELSE clusterOf(k) = {}
                 /\ input = ScenarioInput
                       => /\ Len(result.nodes) = 1
                          /\ result.nodes[1].isCluster
                          /\ result.nodes[1].nodeCount = ScenarioNodes

\* the scenario was clustered
C9_Witness ==
    /\ Len(cout) = 1
    /\ cin[1] = ScenarioInput
    /\ Clustered(cin[1])
    /\ Len(cout[1].nodes) = 1

\* two groups of one SBOM and one type that differ in the subtype only were
\* clustered, one of them with a common member
C9_SubtypesApart ==
    /\ Len(cout) = 1
    /\ Clustered(cin[1])
    /\ \E c1, c2 \in ClusterNodesOf(cout[1]) :
          /\ c1.sbomId = c2.sbomId /\ c1.type = c2.type
          /\ c1.subtype # c2.subtype
          /\ c1.isCommon /\ ~c2.isCommon

\* C10: every important node of the input is in the output as a regular node
\* and is in no cluster node: its id is in no originalNodeIds.
C10_ImportantNotAbsorbed ==
    \A i \in 1..Len(cout) :
        \A k \in 1..Len(cin[i].nodes) :
            isImportant(cin[i].nodes[k], cin[i].links)
                => /\ cin[i].nodes[k] \in Range(cout[i].nodes)
                   /\ \A c \in ClusterNodesOf(cout[i]) :
                         cin[i].nodes[k].id \notin Range(c.originalNodeIds)

\* the first half of C10 alone: every important node is shown individually
C10_ImportantShown ==
    \A i \in 1..Len(cout) :
        \A k \in 1..Len(cin[i].nodes) :
            isImportant(cin[i].nodes[k], cin[i].links)
                => cin[i].nodes[k] \in Range(cout[i].nodes)

\* the links of the output that createClusterLinks made
ClusterLinksOf(result) ==
    SelectSeq(result.links, LAMBDA l : l.type = "cluster-link")

\* the positions of the input links whose source and target are ids of nodes
\* of two different groups
CrossingLinks(input) ==
    {n \in 1..Len(input.links) :
        \E k, m \in 1..Len(input.nodes) :
            /\ input.nodes[k].id = input.links[n].source
            /\ input.nodes[m].id = input.links[n].target
            /\ GroupOf(input.nodes, k) # GroupOf(input.nodes, m)}

\* those of them that go from the group named s to the group named t
CrossingBetween(input, s, t) ==
    {n \in CrossingLinks(input) :
        \E k, m \in 1..Len(input.nodes) :
            /\ input.nodes[k].id = input.links[n].source
            /\ input.nodes[m].id = input.links[n].target
            /\ clusterIdOf(input.nodes[k]) = s
            /\ clusterIdOf(input.nodes[m]) = t}

RECURSIVE SumOfCounts(_, _)
SumOfCounts(linkList, n) ==
    IF n = 0 THEN 0 ELSE SumOfCounts(linkList, n - 1) + linkList[n].count

\* C11: above the threshold the cluster links are one per ordered pair of
\* different groups joined by an input link; the count of each is the number
\* of input links from a member of its source group to a member of its target
\* group, the counts add up to the number of input links between different
\* groups, and a link inside one group gives no cluster link.
C11_ClusterLinksCountCrossings ==
    \A i \in 1..Len(cout) :
        LET input == cin[i]
            clusterLinks == ClusterLinksOf(cout[i])
        IN  Clustered(input)
            => /\ \A c \in 1..Len(clusterLinks) :
                      /\ clusterLinks[c].source # clusterLinks[c].target
                      /\ clusterLinks[c].count >= 1
                      /\ clusterLinks[c].count
                            = Cardinality(CrossingBetween(input,
                                  clusterLinks[c].source, clusterLinks[c].target))
                      /\ \A d \in 1..Len(clusterLinks) :
                            (/\ clusterLinks[d].source = clusterLinks[c].source
                             /\ clusterLinks[d].target = clusterLinks[c].target)
                                => d = c
               /\ \A n \in CrossingLinks(input) :
                      \E c \in 1..Len(clusterLinks) :
                          n \in CrossingBetween(input, clusterLinks[c].source,
                                                clusterLinks[c].target)
               /\ SumOfCounts(clusterLinks, Len(clusterLinks))
                     = Cardinality(CrossingLinks(input))

\* clustering was applied to an input with two links between one pair of
\* groups, links to another group and a link inside a group
C11_Witness ==
    /\ Len(cout) = 1
    /\ Clustered(cin[1])
    /\ \E c \in 1..Len(ClusterLinksOf(cout[1])) :
          ClusterLinksOf(cout[1])[c].count >= 2
    /\ Len(ClusterLinksOf(cout[1])) >= 2
    /\ \E n \in 1..Len(cin[1].links) : n \notin CrossingLinks(cin[1])

(***************************************************************************)
(* Claims about applyDensityReduction                                      *)
(***************************************************************************)
\* the limit the call compares the node count with
MaxNodesOf(input) ==
    IF input.optMaxNodes # 0 THEN input.optMaxNodes ELSE ClustererMaxNodeLimit

Reduced(input) == Len(input.nodes) > MaxNodesOf(input)

\* C12: when the input has more nodes than maxNodes, exactly maxNodes nodes
\* are retained, all of them nodes of the input, every retained link has its
\* source and its target among the ids of the retained nodes, and every
\* retained link is a link of the input.
C12_ReductionKeepsSoundLinks ==
    \A i \in 1..Len(cout) :
        LET input == cin[i]
            result == cout[i]
            kept == {result.nodes[k].id : k \in 1..Len(result.nodes)}
        IN  Reduced(input)
            => /\ Len(result.nodes) = MaxNodesOf(input)
               /\ Range(result.nodes) \subseteq Range(input.nodes)
               /\ \A l \in 1..Len(result.links) :
                      /\ result.links[l].source \in kept
                      /\ result.links[l].target \in kept
                      /\ result.links[l] \in Range(input.links)
               /\ Len(result.links) <= Len(input.links)

\* a reduction kept a link and dropped a link whose source was kept
C12_Witness ==
    /\ Len(cout) = 1
    /\ Reduced(cin[1])
    /\ Len(cout[1].links) > 0
    /\ \E n \in 1..Len(cin[1].links) :
          /\ cin[1].links[n].source \in {cout[1].nodes[k].id :
                                            k \in 1..Len(cout[1].nodes)}
          /\ cin[1].links[n] \notin Range(cout[1].links)

(***************************************************************************)
(* Claims about render at the node limit                                   *)
(***************************************************************************)
\* C13: after a render with density reduction enabled the displayed nodes
\* are no more than the node limit of that render, whether the render applied
\* clustering or not.
C13_DisplayWithinNodeLimit ==
    \A i \in 1..Len(rendered) :
        rendered[i].options.densityReductionEnabled
            => Len(nodes) <= rendered[i].options.maxNodeLimit

(***************************************************************************)
(* Claims about render under the type filter                               *)
(***************************************************************************)
\* no two SBOMs of the store have one id
DistinctStoreIds(store) ==
    \A i, j \in 1..Len(store) : store[i].id = store[j].id => i = j

\* the component lists of an SBOM, the type of their nodes and the value of
\* their filter checkbox
ComponentKinds ==
    {[list |-> "systems", type |-> "system", filter |-> "systems"],
     [list |-> "hardware", type |-> "hardware", filter |-> "hardware"],
     [list |-> "software", type |-> "software", filter |-> "software"]}

\* the displayed nodes of the SBOM and the type
NodesShown(sbomId, type) ==
    SelectSeq(nodes, LAMBDA n : n.sbomId = sbomId /\ n.type = type)

\* the kinds have, in the display, one node for every component of every
\* visible SBOM when their box is checked and none when it is not
KindsShownAsFiltered(kinds) ==
    \A r \in 1..Len(rendered) :
        LET store == rendered[r].store
            options == rendered[r].options
        IN  DistinctStoreIds(store)
            => \A i \in 1..Len(store), kind \in kinds :
                  LET shown == NodesShown(store[i].id, kind.type)
                      components == store[i][kind.list]
                  IN  IF /\ store[i].id \in options.visibleSboms
                         /\ kind.filter \in Range(options.visibleTypes.types)
                      THEN [k \in 1..Len(shown) |-> shown[k].id]
                              = [k \in 1..Len(components) |-> components[k].uuid]
                      ELSE shown = << >>

\* C14: after a render the display has exactly one node for every component
\* of a visible SBOM whose type is checked in the filter and none for any
\* other component; with the three boxes checked every system, hardware and
\* software component of every visible SBOM has its node.
C14_OneNodePerSelectedComponent == KindsShownAsFiltered(ComponentKinds)

\* the same for hardware and software alone
C14_HardwareAndSoftwareShown ==
    KindsShownAsFiltered({kind \in ComponentKinds : kind.type # "system"})

\* the displayed links that come from the relationships of an SBOM
IsRelationshipLink(link) ==
    /\ "isCommonLink" \notin DOMAIN link
    /\ "isDependencyLink" \notin DOMAIN link

\* the ids of the nodes of the SBOM whose type is in the filter
PassedFilter(sbom, options) ==
    {sbom.graphData.nodes[k].id : k \in
        {k \in 1..Len(sbom.graphData.nodes) :
            sbom.graphData.nodes[k].type \in Range(options.visibleTypes.types)}}

\* C15: after a render every displayed relationship link is a link of a
\* visible SBOM whose source and target are both ids of nodes of that SBOM
\* that passed the type filter, and a relationship of an SBOM with an end
\* that is no node of it, or a node the filter removed, is not displayed.
C15_LinksBetweenFilteredNodes ==
    \A r \in 1..Len(rendered) :
        LET store == rendered[r].store
            options == rendered[r].options
            visible == {i \in 1..Len(store) : store[i].id \in options.visibleSboms}
        IN  /\ \A l \in 1..Len(links) :
                  IsRelationshipLink(links[l])
                      => \E i \in visible :
                            /\ links[l].sbomId = store[i].id
                            /\ links[l] \in Range(store[i].graphData.links)
                            /\ links[l].source \in PassedFilter(store[i], options)
                            /\ links[l].target \in PassedFilter(store[i], options)
            /\ DistinctStoreIds(store)
                  => \A i \in 1..Len(store) :
                        \A link \in Range(store[i].graphData.links) :
                            (\/ link.source \notin PassedFilter(store[i], options)
                             \/ link.target \notin PassedFilter(store[i], options))
                                => link \notin Range(links)

\* a render displayed a relationship and left out one to an id of no
\* component and one from a component the filter removed
C15_Witness ==
    /\ Len(rendered) = 1
    /\ \E i \in 1..Len(rendered[1].store) :
          LET sbom == rendered[1].store[i]
              ids == {sbom.graphData.nodes[k].id :
                         k \in 1..Len(sbom.graphData.nodes)}
              passed == PassedFilter(sbom, rendered[1].options)
          IN  /\ sbom.id \in rendered[1].options.visibleSboms
              /\ \E shown, ghost, hidden \in Range(sbom.graphData.links) :
                    /\ shown \in Range(links)
                    /\ ghost.target \notin ids /\ ghost.source \in passed
                    /\ ghost \notin Range(links)
                    /\ hidden.source \in ids \ passed /\ hidden.target \in passed
                    /\ hidden \notin Range(links)

\* the displayed links between occurrences of a common component
CommonLinksShown ==
    SelectSeq(links, LAMBDA link : "isCommonLink" \in DOMAIN link)

\* the ids of the SBOMs of the store that hold a software component with
\* the identity key
HoldersOf(store, key) ==
    {store[i].id : i \in {i \in 1..Len(store) :
        \E k \in 1..Len(store[i].software) :
            identityKey(store[i].software[k]) = key}}

\* the identity keys of the software components of the store
KeysOf(store) ==
    UNION {{identityKey(store[i].software[k]) : k \in 1..Len(store[i].software)} :
              i \in 1..Len(store)} \ {Undefined}

\* C16: after a render the common links of an identity key held by k SBOMs
\* are k(k-1)/2, one per unordered pair of different SBOMs that hold the key,
\* however often the key occurs inside an SBOM; each of them has isCommonLink
\* true and an sbomId that is the id of no SBOM, and joins components of two
\* different SBOMs that hold the key.
C16_OneCommonLinkPerSbomPair ==
    \A r \in 1..Len(rendered) :
        LET store == rendered[r].store
            uuidsOf(i, key) ==
                {store[i].software[k].uuid : k \in
                    {k \in 1..Len(store[i].software) :
                        identityKey(store[i].software[k]) = key}}
        IN  DistinctStoreIds(store)
            => /\ \A key \in KeysOf(store) :
                      LET k == Cardinality(HoldersOf(store, key))
                      IN  Len(SelectSeq(CommonLinksShown,
                                        LAMBDA link : link.commonKey = key))
                              = (k * (k - 1)) \div 2
               /\ \A l \in 1..Len(CommonLinksShown) :
                      LET link == CommonLinksShown[l]
                      IN  /\ link.isCommonLink = TRUE
                          /\ link.commonKey \in KeysOf(store)
                          /\ \A i \in 1..Len(store) : link.sbomId # store[i].id
                          /\ \E i, j \in 1..Len(store) :
                                /\ i # j
                                /\ link.source \in uuidsOf(i, link.commonKey)
                                /\ link.target \in uuidsOf(j, link.commonKey)

\* the second and third part of C16 alone
C16_CommonLinksAcrossSboms ==
    \A r \in 1..Len(rendered) :
        LET store == rendered[r].store
            uuidsOf(i, key) ==
                {store[i].software[k].uuid : k \in
                    {k \in 1..Len(store[i].software) :
                        identityKey(store[i].software[k]) = key}}
        IN  DistinctStoreIds(store)
            => \A l \in 1..Len(CommonLinksShown) :
                  LET link == CommonLinksShown[l]
                  IN  /\ link.isCommonLink = TRUE
                      /\ \A i \in 1..Len(store) : link.sbomId # store[i].id
                      /\ \E i, j \in 1..Len(store) :
                            /\ i # j
                            /\ link.source \in uuidsOf(i, link.commonKey)
                            /\ link.target \in uuidsOf(j, link.commonKey)

\* C17: after a render a displayed node is marked common only if its
\* identity key is held by two different SBOMs of the store the render read:
\* a mark of an earlier render is not carried over.
C17_MarksRecomputed ==
    \A r \in 1..Len(rendered) :
        LET store == rendered[r].store
        IN  DistinctStoreIds(store)
            => \A n \in 1..Len(nodes) :
                  nodes[n].isCommon
                      => \E key \in KeysOf(store) :
                            /\ Cardinality(HoldersOf(store, key)) >= 2
                            /\ \E i \in 1..Len(store) :
                                  \E k \in 1..Len(store[i].software) :
                                      /\ store[i].software[k].uuid = nodes[n].id
                                      /\ identityKey(store[i].software[k]) = key

(***************************************************************************)
(* Claims about expanding and collapsing                                   *)
(***************************************************************************)
\* C7: when a displayed cluster node is expanded and then collapsed, the
\* displayed nodes and the displayed links are, as sets, what they were
\* immediately before the expansion.
C7_CollapseRestores ==
    \A i \in 1..Len(before) :
        before[i].collapsed
            => /\ Range(nodes) = before[i].nodes
               /\ Range(links) = before[i].links

\* the same for the nodes and links that are neither the important nodes
\* absorbed in the cluster nor links at the cluster's members
C7_RestoresOutsideTheCluster ==
    \A i \in 1..Len(before) :
        before[i].collapsed
            => LET c == CHOOSE n \in Range(nodes) :
                            n.isCluster /\ n.id = before[i].cluster
                   member(id) == id \in Range(c.originalNodeIds)
               IN  /\ {n \in Range(nodes) : ~member(n.id)}
                        = {n \in before[i].nodes : ~member(n.id)}
                   /\ {l \in Range(links) : ~member(l.source) /\ ~member(l.target)}
                        = {l \in before[i].links :
                               ~member(l.source) /\ ~member(l.target)}

(***************************************************************************)
(* Claims about normalization                                              *)
(***************************************************************************)
\* what a string property of a raw record must normalize to: its value when
\* it is there and not empty, the default otherwise
DefaultedString(raw, f, d) ==
    IF f \in DOMAIN raw /\ raw[f] # "" THEN raw[f] ELSE d

DefaultedList(raw, f) == IF f \in DOMAIN raw THEN raw[f] ELSE << >>

DefaultedNumber(raw, f) == IF f \in DOMAIN raw THEN raw[f] ELSE 0

\* the record has a metadata entry of OS Linux with elfIdent
HasLinuxElf(raw) ==
    /\ "metadata" \in DOMAIN raw
    /\ \E k \in 1..Len(raw.metadata) :
          /\ "OS" \in DOMAIN raw.metadata[k]
          /\ raw.metadata[k].OS = "Linux"
          /\ "elfIdent" \in DOMAIN raw.metadata[k]
          /\ raw.metadata[k].elfIdent

DefaultedSystem(raw, n) ==
    /\ n.uuid = DefaultedString(raw, "UUID", "")
    /\ n.name = DefaultedString(raw, "name", "Unnamed System")
    /\ n.vendor = DefaultedString(raw, "vendor", "")
    /\ n.captureStart = DefaultedNumber(raw, "captureStart")
    /\ n.captureEnd = DefaultedNumber(raw, "captureEnd")
    /\ n.metadata = DefaultedList(raw, "metadata")

DefaultedHardware(raw, n) ==
    /\ n.uuid = DefaultedString(raw, "UUID", "")
    /\ n.name = DefaultedString(raw, "name", "Unnamed Hardware")
    /\ n.vendor = DefaultedList(raw, "vendor")
    /\ n.metadata = DefaultedList(raw, "metadata")

DefaultedSoftware(raw, n) ==
    /\ n.uuid = DefaultedString(raw, "UUID", "")
    /\ ("name" \in DOMAIN raw /\ raw.name # "" => n.name = raw.name)
    /\ ("name" \notin DOMAIN raw /\ "fileName" \notin DOMAIN raw
            => n.name = "Unnamed Component")
    /\ n.fileName = DefaultedList(raw, "fileName")
    /\ n.version = DefaultedString(raw, "version", "")
    /\ n.size = DefaultedNumber(raw, "size")
    /\ n.vendor = DefaultedList(raw, "vendor")
    /\ n.description = DefaultedString(raw, "description", "")
    /\ n.installPath = DefaultedList(raw, "installPath")
    /\ n.containerPath = DefaultedList(raw, "containerPath")
    /\ n.captureTime = DefaultedNumber(raw, "captureTime")
    /\ n.sha1 = DefaultedString(raw, "sha1", "")
    /\ n.sha256 = DefaultedString(raw, "sha256", "")
    /\ n.md5 = DefaultedString(raw, "md5", "")
    /\ n.metadata = DefaultedList(raw, "metadata")
    /\ (~HasLinuxElf(raw) => ~n.elfMetadata.present)

DefaultedRelationship(raw, n) ==
    /\ n.source = DefaultedString(raw, "xUUID", "")
    /\ n.target = DefaultedString(raw, "yUUID", "")

\* sbom holds one defaulted record for every record of doc, in order
FullyDefaulted(doc, sbom) ==
    LET rels == DefaultedList(doc, "relationships")
    IN  /\ Len(sbom.systems) = Len(doc.systems)
        /\ \A i \in 1..Len(doc.systems) :
              DefaultedSystem(doc.systems[i], sbom.systems[i])
        /\ Len(sbom.hardware) = Len(doc.hardware)
        /\ \A i \in 1..Len(doc.hardware) :
              DefaultedHardware(doc.hardware[i], sbom.hardware[i])
        /\ Len(sbom.software) = Len(doc.software)
        /\ \A i \in 1..Len(doc.software) :
              DefaultedSoftware(doc.software[i], sbom.software[i])
        /\ Len(sbom.relationships) = Len(rels)
        /\ \A i \in 1..Len(rels) :
              DefaultedRelationship(rels[i], sbom.relationships[i])

\* an addSBOM call with a document that is no duplicate has just run
AddedNonDuplicate ==
    /\ last'.op = "addSBOM"
    /\ <<sboms, last>> # <<sboms', last'>>
    /\ ~isDuplicateSBOM(last'.doc, last'.fileName)

\* the records addSBOM stores for a schema-incomplete document are fully
\* defaulted
C21_StoredRecordsDefaulted ==
    [][AddedNonDuplicate
          => /\ Len(sboms') = Len(sboms) + 1
             /\ FullyDefaulted(last'.doc, sboms'[Len(sboms')])]_vars

\* C21: for a document in which any top-level array and any field of any
\* record may be absent, addSBOM does not throw and stores fully-defaulted
\* records: '' or the placeholder name for absent strings, the empty list for
\* absent lists, 0 for absent numbers, elfMetadata null without a qualifying
\* Linux ELF entry, and '' for a missing relationship endpoint.
C21_NormalizationNeverFails ==
    [][AddedNonDuplicate
          => /\ last'.result # "threw"
             /\ Len(sboms') = Len(sboms) + 1
             /\ FullyDefaulted(last'.doc, sboms'[Len(sboms')])]_vars

\* the name the three-tier fallback gives a raw software record
ThreeTierName(raw) ==
    IF "name" \in DOMAIN raw /\ raw.name # "" THEN raw.name
    ELSE IF "fileName" \in DOMAIN raw /\ Len(raw.fileName) >= 1
    THEN raw.fileName[1]
    ELSE "Unnamed Component"

\* addSBOM has just stored the document last.doc as the last SBOM
JustStored == last.op = "addSBOM" /\ last.result # "null"

\* C22: the name of a normalized software component is the record's name
\* when present and non-empty, otherwise the first entry of fileName when
\* there is one, otherwise 'Unnamed Component'; no other placeholder appears.
C22_ThreeTierName ==
    JustStored =>
        \A i \in 1..Len(last.doc.software) :
            sboms[Len(sboms)].software[i].name
                = ThreeTierName(last.doc.software[i])

\* the fallback is followed by every record whose first file name, when it is
\* the tier that applies, is not empty
C22_ThreeTierUnlessEmptyFileName ==
    JustStored =>
        \A i \in 1..Len(last.doc.software) :
            ThreeTierName(last.doc.software[i]) # ""
                => sboms[Len(sboms)].software[i].name
                       = ThreeTierName(last.doc.software[i])

(***************************************************************************)
(* Claims about the batch import                                           *)
(***************************************************************************)
\* an import has run: cin holds its files and the collection before it, cout
\* the array it returned and the names it reported as failed
Imported == cin # << >> /\ last.op = "parseFiles"

\* the SBOM holds the normalized content of the document
SameContent(sbom, doc) ==
    /\ sbom.systems = normalizeSystems(doc.systems)
    /\ sbom.hardware = normalizeHardware(doc.hardware)
    /\ sbom.software = normalizeSoftware(doc.software)

\* file i of the batch is a .json file with a valid document, and neither its
\* name nor its document occurs in another file of the batch or in the
\* collection before the import
ValidNonDuplicate(files, i, store) ==
    /\ endsWithJson(files[i].name)
    /\ files[i].content.kind = "json"
    /\ \A j \in 1..Len(files) :
          j # i => /\ files[j].name # files[i].name
                   /\ (files[j].content.kind = "json"
                          => files[j].content.doc # files[i].content.doc)
    /\ \A j \in 1..Len(store) :
          /\ store[j].fileName # files[i].name
          /\ ~SameContent(store[j], files[i].content.doc)

\* the document of file i is in the list under the file's name
HoldsFile(list, file) ==
    \E k \in 1..Len(list) :
        /\ list[k].fileName = file.name
        /\ SameContent(list[k], file.content.doc)

Malformed(file) ==
    endsWithJson(file.name) /\ file.content.kind \in {"invalid", "unreadable"}

\* C23: a malformed file of a batch fails alone: every other file of the
\* batch with a valid, non-duplicate document is added to the store and
\* returned by the import.
C23_MalformedFileFailsAlone ==
    Imported =>
        \A i \in 1..Len(cin[1].files) :
            ValidNonDuplicate(cin[1].files, i, cin[1].store)
                => /\ HoldsFile(sboms, cin[1].files[i])
                   /\ HoldsFile(cout[1].sboms, cin[1].files[i])

\* without a malformed file, without skipped files and without the UI
\* controls, every valid non-duplicate file is added and returned
C23_CleanBatchImported ==
    (/\ Imported
     /\ ~uiInstalled
     /\ \A i \in 1..Len(cin[1].files) :
           endsWithJson(cin[1].files[i].name) /\ ~Malformed(cin[1].files[i]))
        => \A i \in 1..Len(cin[1].files) :
              ValidNonDuplicate(cin[1].files, i, cin[1].store)
                  => /\ HoldsFile(sboms, cin[1].files[i])
                     /\ HoldsFile(cout[1].sboms, cin[1].files[i])

(***************************************************************************)
(* Claims about repeated calls of findCommonComponents                     *)
(***************************************************************************)
\* the identity key the index files a component under ("" for none)
IndexKey(sw) ==
    IF sw.sha256 # "" THEN "sha256:" \o sw.sha256
    ELSE IF sw.fileName # << >> THEN "name:" \o sw.fileName[1]
    ELSE ""

\* the software components of the store: SBOMs in ingestion order, the
\* components of one SBOM in document order
InIngestionOrder(store) ==
    Flatten([i \in 1..Len(store) |->
                [j \in 1..Len(store[i].software) |->
                    [sbomId |-> store[i].id,
                     uuid |-> store[i].software[j].uuid,
                     component |-> store[i].software[j]]]])

\* the Map lists its keys by first occurrence, the occurrences of a key in
\* ingestion and document order and the SBOM ids by first occurrence
OrderPreserving(map, store) ==
    LET all == InIngestionOrder(store)
        keys == Distinct(MapSeq(all, LAMBDA o : IndexKey(o.component)))
    IN  /\ MapSeq(map, LAMBDA e : e.key)
            = SelectSeq(keys, LAMBDA k : \E n \in 1..Len(map) : map[n].key = k)
        /\ \A n \in 1..Len(map) :
              /\ map[n].occurrences
                    = SelectSeq(all, LAMBDA o : IndexKey(o.component) = map[n].key)
              /\ map[n].sbomIds
                    = Distinct(MapSeq(map[n].occurrences, LAMBDA o : o.sbomId))

\* a call of findCommonComponents has just returned
FindCommonReturned == last'.op = "findCommonComponents" /\ cin' # cin

\* C24: findCommonComponents leaves the store as it is, a call that follows
\* another call with no addSBOM, removeSBOM or clear in between returns the
\* same Map (same keys, occurrence lists and sbomIds lists, in the same
\* order), and the order is that of ingestion and of the documents.
C24_FindCommonIdempotent ==
    [][FindCommonReturned
          => /\ sboms' = sboms
             /\ (last.op = "findCommonComponents" => cout' = cout)
             /\ OrderPreserving(cout'[1], sboms')]_vars

\* a second call in a row has returned a Map with a common component
C24_Witness ==
    /\ last.op = "findCommonComponents"
    /\ cin[1].n = MaxCalls
    /\ cout[1] # << >>
    /\ Len(cout[1][1].sbomIds) > 1

(***************************************************************************)
(* Claims about the ids in the output of applyClustering                   *)
(***************************************************************************)
IdsOf(nodeList) == {nodeList[k].id : k \in 1..Len(nodeList)}

\* every link has the id of a node of the list at both ends
LinksJoinNodes(nodeList, linkList) ==
    \A n \in 1..Len(linkList) :
        /\ linkList[n].source \in IdsOf(nodeList)
        /\ linkList[n].target \in IdsOf(nodeList)

\* no id occurs at two positions of the list
IdsDistinct(nodeList) ==
    \A k, m \in 1..Len(nodeList) : nodeList[k].id = nodeList[m].id => k = m

\* C25: for an input whose links all join input nodes, every link of the
\* output of applyClustering has the id of an output node as its source and
\* as its target; no cluster link names the group of a single node.
C25_LinksJoinOutputNodes ==
    \A i \in 1..Len(cout) :
        LinksJoinNodes(cin[i].nodes, cin[i].links)
            => LinksJoinNodes(cout[i].nodes, cout[i].links)

\* the links createImportantLinks makes join output nodes
C25_ImportantLinksJoinOutputNodes ==
    \A i \in 1..Len(cout) :
        LinksJoinNodes(cin[i].nodes, cin[i].links)
            => LinksJoinNodes(cout[i].nodes,
                              SelectSeq(cout[i].links,
                                        LAMBDA l : l.type # "cluster-link"))

\* C26: for input nodes with distinct ids the node list applyClustering
\* returns has no id twice; an important node that is alone in its group is
\* in it once.
C26_OutputIdsDistinct ==
    \A i \in 1..Len(cout) :
        IdsDistinct(cin[i].nodes) => IdsDistinct(cout[i].nodes)

\* the displayed node list has no id twice
C26_DisplayedIdsDistinct == IdsDistinct(nodes)

(***************************************************************************)
(* Claims about the ends of the rendered links                             *)
(***************************************************************************)
\* C27: after a render without clustering every link of the graph
\* (relationship, common-component and dependency links) has both ends among
\* the rendered nodes, whatever SBOMs are visible and whatever the type
\* filter; no common link names a component of an SBOM that is not visible.
C27_LinksJoinRenderedNodes ==
    rendered # << >> => LinksJoinNodes(nodes, links)

\* the links other than the common links have both ends among the rendered
\* nodes
C27_OwnLinksJoinRenderedNodes ==
    rendered # << >>
        => LinksJoinNodes(nodes, SelectSeq(links, LAMBDA link :
                                      "isCommonLink" \notin DOMAIN link))

(***************************************************************************)
(* Claims about what the import returns and registers                      *)
(***************************************************************************)
\* an addSBOM call has just returned or thrown
AddSBOMReturned == last'.op = "addSBOM" /\ <<sboms, last>> # <<sboms', last'>>

\* an import has just resolved
ParseFilesResolved == last'.op = "parseFiles" /\ cin = << >> /\ cin' # << >>

\* the SBOMs the step appended to the collection
Appended == SubSeq(sboms', Len(sboms) + 1, Len(sboms'))

\* C28: addSBOM appends exactly one SBOM and returns it for a document that
\* is no duplicate, and leaves the collection as it was whenever it returns
\* null or throws; so the list parseFiles returns is the list of SBOMs the
\* import appended to the store, also with window.UIControls loaded.
C28_AllOrNothing ==
    [][/\ AddSBOMReturned
          => /\ ~isDuplicateSBOM(last'.doc, last'.fileName)
                   => Len(Appended) = 1 /\ last'.result = "sbom"
             /\ last'.result \in {"null", "threw"} => sboms' = sboms
       /\ ParseFilesResolved
          => /\ SubSeq(sboms', 1, Len(sboms)) = sboms
             /\ cout'[1].sboms = Appended]_vars

\* without window.UIControls addSBOM is all-or-nothing and parseFiles returns
\* what it appended
C28_AllOrNothingWithoutUIControls ==
    [][~uiInstalled
          => /\ AddSBOMReturned
                => /\ ~isDuplicateSBOM(last'.doc, last'.fileName)
                         => Len(Appended) = 1 /\ last'.result = "sbom"
                   /\ last'.result \in {"null", "threw"} => sboms' = sboms
             /\ ParseFilesResolved
                => /\ SubSeq(sboms', 1, Len(sboms)) = sboms
                   /\ cout'[1].sboms = Appended]_vars

\* C29: every SBOM a batch import registers has the name of the file its
\* content was read from, also when files of the batch are skipped because
\* their name does not end in .json.
C29_RegisteredUnderOwnName ==
    Imported =>
        \A k \in (Len(cin[1].store) + 1)..Len(sboms) :
            \E i \in 1..Len(cin[1].files) :
                /\ cin[1].files[i].name = sboms[k].fileName
                /\ cin[1].files[i].content.kind = "json"
                /\ SameContent(sboms[k], cin[1].files[i].content.doc)

\* the names are the files' own when no file of the batch is skipped
C29_OwnNameWithoutSkippedFiles ==
    (Imported /\ \A i \in 1..Len(cin[1].files) : endsWithJson(cin[1].files[i].name))
        => \A k \in (Len(cin[1].store) + 1)..Len(sboms) :
              \E i \in 1..Len(cin[1].files) :
                  /\ cin[1].files[i].name = sboms[k].fileName
                  /\ cin[1].files[i].content.kind = "json"
                  /\ SameContent(sboms[k], cin[1].files[i].content.doc)

(***************************************************************************)
(* Claims about the SBOM list of the sidebar                               *)
(***************************************************************************)
\* an item of the list has just been clicked; last'.fileName is its SBOM id
ItemClicked == last'.op = "click" /\ sidebar.pending = << >> /\ sidebar' # sidebar

\* C30: a click on a visible SBOM, when at least two SBOMs are visible,
\* takes its id out of visibleSboms; a click on a hidden SBOM puts its id in;
\* and with a non-empty store at least one SBOM is visible.
C30_ClickToggles ==
    [][/\ ItemClicked
          => /\ (/\ last'.fileName \in Range(sidebar.visibleSboms)
                 /\ Cardinality(visibleOf(sboms, sidebar.visibleSboms)) >= 2)
                    => last'.fileName \notin Range(sidebar'.visibleSboms)
             /\ last'.fileName \notin Range(sidebar.visibleSboms)
                    => last'.fileName \in Range(sidebar'.visibleSboms)
       /\ Len(sboms') > 0 => visibleOf(sboms', sidebar'.visibleSboms) # {}]_vars

\* with a non-empty store at least one SBOM of the store is visible
C30_OneStaysVisible ==
    Len(sboms) > 0 => visibleOf(sboms, sidebar.visibleSboms) # {}

\* every SBOM of the store is visible whenever the list has been rebuilt
C30_AllAlwaysVisible ==
    \A i \in 1..Len(sboms) : sboms[i].id \in Range(sidebar.visibleSboms)

=============================================================================
